---- MODULE Spec2Model ----
(***************************************************************************)
(* A model of the polishui screenshot pipeline: the template registry,     *)
(* the storyboard generator and its update operations, the Sharp renderer  *)
(* and the ZIP export service.                                             *)
(*                                                                         *)
(* Texts whose content is never inspected (headlines, ids, filenames) are  *)
(* strings; the app name, which validateStoryboardInput trims, is a        *)
(* sequence of one-character strings.                                      *)
(***************************************************************************)
EXTENDS Integers, Sequences, FiniteSets, TLC

VARIABLES
    templateCatalog,   \* TEMPLATES (domain/templates.ts)
    defaultByType,     \* DEFAULT_TEMPLATE_BY_TYPE
    deviceTargets,     \* DEVICE_TARGETS (domain/constants.ts)
    themeTokens,       \* THEME (domain/theme.ts), the tokens the operations read
    console,           \* lines written by console.warn, oldest first
    tplCall,           \* the last template-registry call and its outcome
    gen,               \* the generate() call in progress: input, position, locals
    sb,                \* the storyboard the caller currently holds
    call,              \* the last update call: arguments, argument after the call, outcome
    nUpdates,          \* number of update calls made on sb
    rnd,               \* the last render() call and its outcome
    exp,               \* the last exportAsZip() call and its outcome
    cpy,               \* the last generateCopy() call of a copy generator and its outcome
    req,               \* the POST /api/export request in progress
    health,            \* the last GET /api/health response
    svg                \* the last createTextSvg() call and its outcome

vars == <<templateCatalog, defaultByType, deviceTargets, themeTokens, console, tplCall,
          gen, sb, call, nUpdates, rnd, exp, cpy, req, health, svg>>

catalogs == <<templateCatalog, defaultByType, deviceTargets, themeTokens>>

None == "<none>"   \* undefined / no value

----------------------------------------------------------------------------
(* Bounds of the model *)

MaxConsole == 2     \* console lines kept
MaxUpdates == 2     \* update calls per storyboard
MaxImages == 2      \* length of the free-form renderedImages lists
MaxSvgText == 4     \* length of the texts given to createTextSvg

----------------------------------------------------------------------------
(* domain/constants.ts *)

SLIDES_PER_STORYBOARD == 5
VALUE_BULLETS_MIN == 3
VALUE_BULLETS_MAX == 6
SCREENSHOTS_MIN == 5
SCREENSHOTS_MAX == 10
HEADLINE_MAX_LENGTH == 32
SUBHEADLINE_MAX_LENGTH == 60
APP_NAME_MAX_LENGTH == 50
GENERATOR_VERSION == "1.0"
MANIFEST_FILENAME == "manifest.json"
DEFAULT_LOCALE == "en-US"

DEVICE_TARGETS ==
    << [id |-> "iphone-6.7", platform |-> "iPhone", width |-> 1290, height |-> 2796,
        orientation |-> "portrait",
        safeMargin |-> [top |-> 120, right |-> 60, bottom |-> 120, left |-> 60]],
       [id |-> "ipad-12.9", platform |-> "iPad", width |-> 2064, height |-> 2752,
        orientation |-> "portrait",
        safeMargin |-> [top |-> 160, right |-> 80, bottom |-> 160, left |-> 80]] >>

Range(s) == { s[i] : i \in DOMAIN s }

\* Outcomes of an operation that may throw: a value or an error.
Ok(v) == [ok |-> TRUE, value |-> v]
Err(kind, detail) == [ok |-> FALSE, error |-> kind, detail |-> detail]

----------------------------------------------------------------------------
(* domain/theme.ts: the tokens the templates and the renderer use.           *)
(* A colour is the sequence of the characters of its hex string.           *)

COLORS_primary_400 == <<"#", "3", "8", "b", "d", "f", "8">>
COLORS_primary_500 == <<"#", "0", "e", "a", "5", "e", "9">>
COLORS_primary_600 == <<"#", "0", "2", "8", "4", "c", "7">>
COLORS_primary_700 == <<"#", "0", "3", "6", "9", "a", "1">>
COLORS_white == <<"#", "f", "f", "f", "f", "f", "f">>

TYPOGRAPHY_headline_fontSize == 64
TYPOGRAPHY_subheadline_fontSize == 32

\* TYPOGRAPHY_RESPONSIVE, the scales in hundredths.
TYPOGRAPHY_RESPONSIVE ==
    [iPhone |-> [headlineScale |-> 85, subheadlineScale |-> 90],
     iPad |-> [headlineScale |-> 100, subheadlineScale |-> 100]]

\* THEME, restricted to the tokens read after module load: the default brand
\* colour and the responsive scales.
THEME ==
    [colors |-> [primary500 |-> COLORS_primary_500],
     typographyResponsive |-> TYPOGRAPHY_RESPONSIVE]

HexLower == <<"0", "1", "2", "3", "4", "5", "6", "7", "8", "9",
              "a", "b", "c", "d", "e", "f">>
HexUpper == <<"0", "1", "2", "3", "4", "5", "6", "7", "8", "9",
              "A", "B", "C", "D", "E", "F">>

IsHexDigit(c) == \E i \in 1..16 : HexLower[i] = c \/ HexUpper[i] = c
HexVal(c) == (CHOOSE i \in 1..16 : HexLower[i] = c \/ HexUpper[i] = c) - 1

\* Faulty variant: only the leading # is tested.
isValidHexColor_anyLength(hex) ==
    Len(hex) >= 1 /\ hex[1] = "#"

\* /^#[0-9A-F]{6}$/i
isValidHexColor(hex) ==
    Len(hex) = 7 /\ hex[1] = "#" /\ \A i \in 2..7 : IsHexDigit(hex[i])

getBrandColor(userColor) ==
    IF userColor # <<>> /\ isValidHexColor(userColor) THEN userColor
    ELSE themeTokens.colors.primary500

----------------------------------------------------------------------------
(* domain/templates.ts *)

SlideTypes == {"hero", "feature", "closing"}

HERO_TEMPLATE ==
    [id |-> "hero", layout |-> "hero", applicableTypes |-> {"hero"},
     textPosition |-> [align |-> "center", verticalPosition |-> 20, maxWidth |-> 85],
     screenshotPosition |-> [verticalPosition |-> 45, width |-> 70, applyFrame |-> TRUE],
     background |-> [type |-> "gradient",
                     colors |-> <<COLORS_primary_600, COLORS_primary_400>>]]

STACK_TEMPLATE ==
    [id |-> "stack", layout |-> "stack", applicableTypes |-> {"feature"},
     textPosition |-> [align |-> "center", verticalPosition |-> 12, maxWidth |-> 90],
     screenshotPosition |-> [verticalPosition |-> 35, width |-> 65, applyFrame |-> TRUE],
     background |-> [type |-> "solid", colors |-> <<COLORS_white>>]]

SPLIT_TEMPLATE ==
    [id |-> "split", layout |-> "split", applicableTypes |-> {"feature"},
     textPosition |-> [align |-> "left", verticalPosition |-> 30, maxWidth |-> 80],
     screenshotPosition |-> [verticalPosition |-> 25, width |-> 45, applyFrame |-> TRUE],
     background |-> [type |-> "solid", colors |-> <<COLORS_white>>]]

CLOSING_TEMPLATE ==
    [id |-> "closing", layout |-> "hero", applicableTypes |-> {"closing"},
     textPosition |-> [align |-> "center", verticalPosition |-> 35, maxWidth |-> 85],
     screenshotPosition |-> [verticalPosition |-> 70, width |-> 50, applyFrame |-> FALSE],
     background |-> [type |-> "gradient",
                     colors |-> <<COLORS_primary_700, COLORS_primary_500>>]]

TEMPLATES == <<HERO_TEMPLATE, STACK_TEMPLATE, SPLIT_TEMPLATE, CLOSING_TEMPLATE>>

DEFAULT_TEMPLATE_BY_TYPE ==
    [hero |-> "hero", feature |-> "stack", closing |-> "closing"]

\* Array.prototype.find on the catalog: the indices whose template has this id.
TemplateHits(id) == { i \in DOMAIN templateCatalog : templateCatalog[i].id = id }

\* Faulty variant: the first catalog entry, whatever its id.
getTemplateById_first(id) ==
    IF Len(templateCatalog) = 0 THEN Err("TemplateNotFound", id)
    ELSE Ok(templateCatalog[1])

getTemplateById(id) ==
    IF TemplateHits(id) = {} THEN Err("TemplateNotFound", id)
    ELSE Ok(templateCatalog[CHOOSE i \in TemplateHits(id) :
                                \A j \in TemplateHits(id) : i <= j])

getTemplatesForSlideType(slideType) ==
    SelectSeq(templateCatalog, LAMBDA t : slideType \in t.applicableTypes)

getDefaultTemplateForSlideType(slideType) ==
    getTemplateById(defaultByType[slideType])

\* The warning selectTemplate writes, or None when it writes nothing.
selectTemplateWarning(slideType, templateId) ==
    IF templateId = None \/ templateId = "" THEN None
    ELSE LET found == getTemplateById(templateId)
         IN  IF ~found.ok
                 THEN "Template \"" \o templateId \o "\" not found. Using default for \""
                      \o slideType \o "\"."
             ELSE IF slideType \in found.value.applicableTypes THEN None
             ELSE "Template \"" \o templateId \o "\" not applicable for slide type \""
                  \o slideType \o "\". Using default."

\* Faulty variant: a requested template that exists is used for any slide type.
selectTemplate_noApplicableCheck(slideType, templateId) ==
    IF templateId # None /\ templateId # "" /\ getTemplateById(templateId).ok
        THEN getTemplateById(templateId)
    ELSE getDefaultTemplateForSlideType(slideType)

selectTemplate(slideType, templateId) ==
    IF templateId # None /\ templateId # ""
       /\ getTemplateById(templateId).ok
       /\ slideType \in getTemplateById(templateId).value.applicableTypes
        THEN getTemplateById(templateId)
    ELSE getDefaultTemplateForSlideType(slideType)

\* What validateTemplateConfiguration finds wrong with one slide type, or None.
\* Faulty variant: the default template's presence is not verified.
slideTypeFault_noDefaultCheck(slideType) ==
    IF Len(getTemplatesForSlideType(slideType)) = 0
        THEN "No templates available for slide type: " \o slideType
    ELSE None

slideTypeFault(slideType) ==
    IF Len(getTemplatesForSlideType(slideType)) = 0
        THEN "No templates available for slide type: " \o slideType
    ELSE IF TemplateHits(defaultByType[slideType]) = {}
        THEN "Default template \"" \o defaultByType[slideType]
             \o "\" for slide type \"" \o slideType \o "\" not found"
    ELSE None

\* validateTemplateConfiguration: the error of the first faulty slide type in
\* the order hero, feature, closing.
validateTemplateConfiguration ==
    IF slideTypeFault("hero") # None
        THEN Err("Configuration", slideTypeFault("hero"))
    ELSE IF slideTypeFault("feature") # None
        THEN Err("Configuration", slideTypeFault("feature"))
    ELSE IF slideTypeFault("closing") # None
        THEN Err("Configuration", slideTypeFault("closing"))
    ELSE Ok(TRUE)

\* console.warn: a line is appended unless there is nothing to write.
Warn(log, line) == IF line = None THEN log ELSE Append(log, line)

----------------------------------------------------------------------------
(* Small helpers for JavaScript values *)

Digits == <<"0", "1", "2", "3", "4", "5", "6", "7", "8", "9">>

RECURSIVE NumStr(_)
\* Number.prototype.toString for a non-negative integer.
NumStr(n) == IF n < 10 THEN Digits[n + 1] ELSE NumStr(n \div 10) \o Digits[(n % 10) + 1]

\* String.prototype.padStart(2, '0') applied to a number's decimal form.
PadStart2(n) == IF Len(NumStr(n)) < 2 THEN "0" \o NumStr(n) ELSE NumStr(n)

\* Zero-based array read: Has(arr, i) is false when arr[i] is undefined.
Has(arr, i) == i >= 0 /\ i + 1 <= Len(arr)
At(arr, i) == arr[i + 1]

Rep(c, n) == [i \in 1..n |-> c]

RECURSIVE TrimStart(_)
TrimStart(cs) == IF cs # <<>> /\ Head(cs) = " " THEN TrimStart(Tail(cs)) ELSE cs

RECURSIVE TrimEnd(_)
TrimEnd(cs) ==
    IF cs # <<>> /\ cs[Len(cs)] = " " THEN TrimEnd(SubSeq(cs, 1, Len(cs) - 1)) ELSE cs

\* String.prototype.trim on a sequence of characters.
Trim(cs) == TrimEnd(TrimStart(cs))

----------------------------------------------------------------------------
(* domain/constants.ts: validateStoryboardInput, generateFilename *)

\* Faulty variant: no lower limit on the number of screenshots.
validateStoryboardInput_noScreenshotMin(input) ==
    IF input.appName = <<>> \/ Len(Trim(input.appName)) = 0
        THEN Err("Validation", "App name is required")
    ELSE IF Len(input.appName) > APP_NAME_MAX_LENGTH
        THEN Err("Validation", "App name must be 50 characters or less")
    ELSE IF Len(input.valueBullets) < VALUE_BULLETS_MIN
        THEN Err("Validation", "At least 3 value bullets are required")
    ELSE IF Len(input.valueBullets) > VALUE_BULLETS_MAX
        THEN Err("Validation", "Maximum 6 value bullets allowed")
    ELSE IF Len(input.screenshots) > SCREENSHOTS_MAX
        THEN Err("Validation", "Maximum 10 screenshots allowed")
    ELSE Ok(TRUE)

validateStoryboardInput(input) ==
    IF input.appName = <<>> \/ Len(Trim(input.appName)) = 0
        THEN Err("Validation", "App name is required")
    ELSE IF Len(input.appName) > APP_NAME_MAX_LENGTH
        THEN Err("Validation", "App name must be 50 characters or less")
    ELSE IF Len(input.valueBullets) < VALUE_BULLETS_MIN
        THEN Err("Validation", "At least 3 value bullets are required")
    ELSE IF Len(input.valueBullets) > VALUE_BULLETS_MAX
        THEN Err("Validation", "Maximum 6 value bullets allowed")
    ELSE IF Len(input.screenshots) < SCREENSHOTS_MIN
        THEN Err("Validation", "At least 5 screenshots are required")
    ELSE IF Len(input.screenshots) > SCREENSHOTS_MAX
        THEN Err("Validation", "Maximum 10 screenshots allowed")
    ELSE Ok(TRUE)

FILENAME_PATTERN(tag, slideNumber) == tag \o "_" \o PadStart2(slideNumber) \o ".png"

\* Faulty variant: the slide number is not padded to two digits.
generateFilename_unpadded(platform, slideNumber) ==
    IF slideNumber < 1 \/ slideNumber > SLIDES_PER_STORYBOARD
        THEN Err("InvalidSlideNumber", slideNumber)
    ELSE Ok((IF platform = "iPhone" THEN "iphone" ELSE "ipad")
            \o "_" \o NumStr(slideNumber) \o ".png")

\* Faulty variant: slide numbers above SLIDES_PER_STORYBOARD are accepted.
generateFilename_noUpperBound(platform, slideNumber) ==
    IF slideNumber < 1
        THEN Err("InvalidSlideNumber", slideNumber)
    ELSE Ok(FILENAME_PATTERN(IF platform = "iPhone" THEN "iphone" ELSE "ipad",
                             slideNumber))

generateFilename(platform, slideNumber) ==
    IF slideNumber < 1 \/ slideNumber > SLIDES_PER_STORYBOARD
        THEN Err("InvalidSlideNumber", slideNumber)
    ELSE Ok(FILENAME_PATTERN(IF platform = "iPhone" THEN "iphone" ELSE "ipad",
                             slideNumber))

----------------------------------------------------------------------------
(* application/interfaces: ICopyGenerator, the collaborator generate() awaits *)

Text32 == "Organize every project with ease"
Text60 == "Plan, track and ship your best work together, from one place"

\* The copy a generator returns for a request. The "rule" generator derives it
\* from the request; the "limit" generator returns texts of exactly the
\* maximum lengths.
generateCopy(generator, request) ==
    [headline |->
        IF generator = "limit" THEN Text32
        ELSE IF request.valueBullet # None THEN request.valueBullet
        ELSE IF request.slideType = "hero" THEN "Meet your new app"
        ELSE "Get started today",
     subheadline |->
        IF generator = "limit" THEN Text60
        ELSE IF request.slideType = "feature" THEN "Built for you"
        ELSE "Download now",
     locale |-> request.locale]

----------------------------------------------------------------------------
(* application/services/RuleBasedCopyGenerator.ts                          *)
(* A text is the sequence of its UTF-16 code units, each a one-character   *)
(* string; the two non-ASCII units the generators use are named.           *)

ELLIPSIS == "U+2026"      \* the one-unit horizontal ellipsis
CHECK_MARK == "U+2713"    \* the one-unit check mark

\* String.prototype.charCodeAt for the code units of the input texts.
charCodeAt(c) ==
    IF c = " " THEN 32 ELSE IF c = "a" THEN 97 ELSE IF c = "Z" THEN 90 ELSE 122

\* String.prototype.toLowerCase on the input texts.
toLowerCase(text) == [i \in DOMAIN text |-> IF text[i] = "Z" THEN "z" ELSE text[i]]

\* String.prototype.lastIndexOf(' '): zero-based, -1 when there is no space.
lastIndexOfSpace(text) ==
    IF \E i \in DOMAIN text : text[i] = " "
        THEN (CHOOSE i \in DOMAIN text :
                 text[i] = " " /\ \A j \in DOMAIN text : text[j] = " " => j <= i) - 1
    ELSE -1

\* String.prototype.substring(0, end).
substring0(text, end) ==
    SubSeq(text, 1, IF end > Len(text) THEN Len(text) ELSE IF end < 0 THEN 0 ELSE end)

\* One round of hashString's loop on the 32-bit hash held as its two 16-bit
\* halves <<high, low>>: hash = ((hash << 5) - hash) + char; hash = hash & hash.
hashRound(hash, char) ==
    LET low == 31 * hash[2] + char
    IN  << (31 * hash[1] + (low \div 65536)) % 65536, low % 65536 >>

RECURSIVE hashBits(_, _)
\* The 32-bit hash after the loop has consumed text, starting from hash. The
\* halves are never negative: that test only makes the evaluation strict.
hashBits(hash, text) ==
    IF text = <<>> \/ hash[1] < 0 THEN hash
    ELSE hashBits(hashRound(hash, charCodeAt(Head(text))), Tail(text))

\* hashString: Math.abs of the signed 32-bit hash, as the halves of its magnitude.
hashString(str) ==
    LET h == hashBits(<<0, 0>>, str)
    IN  IF h[1] < 32768 THEN h
        ELSE << 65535 - h[1] + (IF h[2] = 0 THEN 1 ELSE 0), (65536 - h[2]) % 65536 >>

\* hash % templates.length
templateIndex(str, length) ==
    (((hashString(str)[1] % length) * (65536 % length)) + (hashString(str)[2] % length))
        % length

\* COPY_TEMPLATES[slideType].headlineTemplates, applied to their argument.
headlineTemplates(slideType, arg) ==
    IF slideType = "hero"
        THEN << arg, <<"M", "e", "e", "t", " ">> \o arg, <<"I", "n", "t", "r", "o", "d", "u", "c", "i", "n", "g", " ">> \o arg >>
    ELSE IF slideType = "feature"
        THEN << arg, <<CHECK_MARK, " ">> \o arg >>
    ELSE << <<"G", "e", "t", " ">> \o arg \o <<" ", "T", "o", "d", "a", "y">>,
            <<"S", "t", "a", "r", "t", " ", "F", "r", "e", "e">>,
            <<"T", "r", "y", " ">> \o arg \o <<" ", "F", "r", "e", "e">>,
            <<"D", "o", "w", "n", "l", "o", "a", "d", " ", "N", "o", "w">> >>

\* COPY_TEMPLATES[slideType].subheadlineTemplates, applied to their argument.
subheadlineTemplates(slideType, arg) ==
    IF slideType = "hero"
        THEN << <<"T", "h", "e", " ", "a", "p", "p", " ", "y", "o", "u", "'", "v", "e", " ", "b", "e", "e", "n", " ", "w", "a", "i", "t", "i", "n", "g", " ", "f", "o", "r">>,
                <<"T", "r", "a", "n", "s", "f", "o", "r", "m", " ", "t", "h", "e", " ", "w", "a", "y", " ", "y", "o", "u", " ", "w", "o", "r", "k">>,
                <<"B", "u", "i", "l", "t", " ", "f", "o", "r", " ", "m", "o", "d", "e", "r", "n", " ", "t", "e", "a", "m", "s">> >>
    ELSE IF slideType = "feature"
        THEN << <<"E", "x", "p", "e", "r", "i", "e", "n", "c", "e", " ">> \o toLowerCase(arg),
                <<"D", "e", "s", "i", "g", "n", "e", "d", " ", "t", "o", " ", "h", "e", "l", "p", " ", "y", "o", "u", " ", "s", "u", "c", "c", "e", "e", "d">>,
                <<"E", "v", "e", "r", "y", "t", "h", "i", "n", "g", " ", "y", "o", "u", " ", "n", "e", "e", "d", ",", " ", "s", "i", "m", "p", "l", "i", "f", "i", "e", "d">> >>
    ELSE << <<"J", "o", "i", "n", " ", "t", "h", "o", "u", "s", "a", "n", "d", "s", " ", "o", "f", " ", "h", "a", "p", "p", "y", " ", "u", "s", "e", "r", "s">>,
            <<"A", "v", "a", "i", "l", "a", "b", "l", "e", " ", "o", "n", " ", "i", "O", "S", " ", "a", "n", "d", " ", "A", "n", "d", "r", "o", "i", "d">>,
            <<"N", "o", " ", "c", "r", "e", "d", "i", "t", " ", "c", "a", "r", "d", " ", "r", "e", "q", "u", "i", "r", "e", "d">> >>

\* RuleBasedCopyGenerator.selectTemplate: the template the hash of input picks.
pickTemplate(templates, input) == templates[templateIndex(input, Len(templates)) + 1]

\* Faulty variant: the ellipsis is appended to the full 32 units.
enforceHeadlineLimit_ellipsisAfterLimit(text) ==
    IF Len(text) <= HEADLINE_MAX_LENGTH THEN text
    ELSE LET truncated == substring0(text, HEADLINE_MAX_LENGTH)
             lastSpace == lastIndexOfSpace(truncated)
         IN  IF 10 * lastSpace > 7 * HEADLINE_MAX_LENGTH
                 THEN Trim(substring0(truncated, lastSpace))
             ELSE Trim(truncated) \o <<ELLIPSIS>>

\* lastSpace > HEADLINE_MAX_LENGTH * 0.7 is tested in tenths.
enforceHeadlineLimit(text) ==
    IF Len(text) <= HEADLINE_MAX_LENGTH THEN text
    ELSE LET truncated == substring0(text, HEADLINE_MAX_LENGTH)
             lastSpace == lastIndexOfSpace(truncated)
         IN  IF 10 * lastSpace > 7 * HEADLINE_MAX_LENGTH
                 THEN Trim(substring0(truncated, lastSpace))
             ELSE Trim(substring0(truncated, HEADLINE_MAX_LENGTH - 1)) \o <<ELLIPSIS>>

enforceSubheadlineLimit(text) ==
    IF Len(text) <= SUBHEADLINE_MAX_LENGTH THEN text
    ELSE LET truncated == substring0(text, SUBHEADLINE_MAX_LENGTH)
             lastSpace == lastIndexOfSpace(truncated)
         IN  IF 10 * lastSpace > 7 * SUBHEADLINE_MAX_LENGTH
                 THEN Trim(substring0(truncated, lastSpace))
             ELSE Trim(substring0(truncated, SUBHEADLINE_MAX_LENGTH - 1)) \o <<ELLIPSIS>>

\* RuleBasedCopyGenerator.generateCopy; an absent value bullet is <<>>.
RuleBasedCopyGenerator_generateCopy(input) ==
    LET headline ==
            IF input.slideType = "feature" /\ input.valueBullet # <<>>
                THEN pickTemplate(headlineTemplates(input.slideType, input.valueBullet),
                                  input.valueBullet)
            ELSE pickTemplate(headlineTemplates(input.slideType, input.appName),
                              input.appName)
        subject == IF input.valueBullet # <<>> THEN input.valueBullet ELSE input.appName
        subheadline == pickTemplate(subheadlineTemplates(input.slideType, subject), subject)
    IN  [headline |-> enforceHeadlineLimit(headline),
         subheadline |-> enforceSubheadlineLimit(subheadline),
         locale |-> input.locale,
         metadata |-> [model |-> "rule-based",
                       truncated |-> \/ headline # enforceHeadlineLimit(headline)
                                     \/ subheadline # enforceSubheadlineLimit(subheadline),
                       fallbackUsed |-> FALSE]]

----------------------------------------------------------------------------
(* application/services/StoryboardGenerator.ts *)

NoInput ==
    [appName |-> <<>>, valueBullets |-> <<>>, screenshots |-> <<>>,
     locale |-> DEFAULT_LOCALE, generator |-> "rule"]

NoStoryboard ==
    [appName |-> <<>>, locale |-> "", slides |-> <<>>, createdAt |-> "", version |-> ""]

\* Slide k's type, by its position in generate().
SlideTypeOf(k) == IF k = 1 THEN "hero" ELSE IF k = 5 THEN "closing" ELSE "feature"

\* The request generateHeroSlide / generateFeatureSlide / generateClosingSlide
\* sends to the copy generator for slide k.
\* Faulty variant: every feature slide is sent the first value bullet.
CopyRequest_firstBullet(input, k) ==
    [slideType |-> SlideTypeOf(k),
     appName |-> input.appName,
     valueBullet |-> IF SlideTypeOf(k) = "feature" THEN At(input.valueBullets, 0)
                     ELSE None,
     locale |-> input.locale,
     tone |-> IF SlideTypeOf(k) = "feature" THEN None ELSE "professional"]

CopyRequest(input, k) ==
    [slideType |-> SlideTypeOf(k),
     appName |-> input.appName,
     valueBullet |-> IF SlideTypeOf(k) = "feature" THEN At(input.valueBullets, k - 2)
                     ELSE None,
     locale |-> input.locale,
     tone |-> IF SlideTypeOf(k) = "feature" THEN None ELSE "professional"]

\* input.screenshots[k - 1] || input.screenshots[0], as a zero-based index.
ScreenshotIndex(input, k) == IF Has(input.screenshots, k - 1) THEN k - 1 ELSE 0

\* The warning generate() pushes before it builds slide k, or None.
\* Faulty variant: the warning is pushed whether or not the screenshot is absent.
FallbackWarning_always(input, k) ==
    IF k >= 2
        THEN "Slide " \o NumStr(k) \o ": Using screenshot #1 (not enough screenshots provided)"
    ELSE None

FallbackWarning(input, k) ==
    IF k >= 2 /\ ~Has(input.screenshots, k - 1)
        THEN "Slide " \o NumStr(k) \o ": Using screenshot #1 (not enough screenshots provided)"
    ELSE None

\* The template id generate*Slide asks selectTemplate for.
\* Faulty variant: the parity test is inverted.
RequestedTemplateId_oddStack(k) ==
    IF SlideTypeOf(k) = "feature" THEN (IF k % 2 = 0 THEN "split" ELSE "stack") ELSE None

RequestedTemplateId(k) ==
    IF SlideTypeOf(k) = "feature" THEN (IF k % 2 = 0 THEN "stack" ELSE "split") ELSE None

\* The part of generate*Slide after the copy has arrived: the slide, or the
\* error thrown (reading .id of an undefined screenshot, or a missing default
\* template).
\* Faulty variant: the slide type is taken from the parity of the slide number.
BuildSlide_typeByParity(input, k, copy) ==
    LET idx == ScreenshotIndex(input, k)
        template == selectTemplate(SlideTypeOf(k), RequestedTemplateId(k))
    IN  IF ~Has(input.screenshots, idx) THEN Err("TypeError", "screenshot is undefined")
        ELSE IF ~template.ok THEN template
        ELSE Ok([id |-> k,
                 type |-> IF k % 2 = 1 THEN "hero" ELSE "feature",
                 text |-> [headline |-> copy.headline,
                           subheadline |-> copy.subheadline,
                           locale |-> input.locale],
                 screenshot |-> [screenshotId |-> At(input.screenshots, idx).id,
                                 originalFilename |-> At(input.screenshots, idx).filename],
                 templateId |-> template.value.id])

BuildSlide(input, k, copy) ==
    LET idx == ScreenshotIndex(input, k)
        template == selectTemplate(SlideTypeOf(k), RequestedTemplateId(k))
    IN  IF ~Has(input.screenshots, idx) THEN Err("TypeError", "screenshot is undefined")
        ELSE IF ~template.ok THEN template
        ELSE Ok([id |-> k,
                 type |-> SlideTypeOf(k),
                 text |-> [headline |-> copy.headline,
                           subheadline |-> copy.subheadline,
                           locale |-> input.locale],
                 screenshot |-> [screenshotId |-> At(input.screenshots, idx).id,
                                 originalFilename |-> At(input.screenshots, idx).filename],
                 templateId |-> template.value.id])

\* The lines selectTemplate writes to the console while slide k is built.
BuildSlideWarning(k) == selectTemplateWarning(SlideTypeOf(k), RequestedTemplateId(k))

\* What an update operation yields: the value returned (or the error thrown)
\* and the storyboard object that was passed in, as it is after the call.
Updated(passed, value) == [ok |-> TRUE, value |-> value, passed |-> passed]
Rejected(passed, slideId) ==
    [ok |-> FALSE, error |-> "InvalidSlideId", detail |-> slideId,
     value |-> NoStoryboard, passed |-> passed]

WithScreenshot(storyboard, slideId, newScreenshotId, newFilename) ==
    [storyboard EXCEPT !.slides[slideId].screenshot =
        [screenshotId |-> newScreenshotId, originalFilename |-> newFilename]]

\* Faulty variant: an out-of-range slide id is clamped into 1..5 instead of rejected.
updateScreenshotAssignment_clamped(storyboard, slideId, newScreenshotId, newFilename) ==
    LET id == IF slideId < 1 THEN 1
              ELSE IF slideId > SLIDES_PER_STORYBOARD THEN SLIDES_PER_STORYBOARD
              ELSE slideId
    IN  Updated(storyboard, WithScreenshot(storyboard, id, newScreenshotId, newFilename))

\* Faulty variant: the updated slide is pushed instead of replacing its element.
updateScreenshotAssignment_appends(storyboard, slideId, newScreenshotId, newFilename) ==
    IF slideId < 1 \/ slideId > SLIDES_PER_STORYBOARD THEN Rejected(storyboard, slideId)
    ELSE Updated(storyboard,
                 [storyboard EXCEPT !.slides =
                     Append(@, [@[slideId] EXCEPT !.screenshot =
                         [screenshotId |-> newScreenshotId,
                          originalFilename |-> newFilename]])])

updateScreenshotAssignment(storyboard, slideId, newScreenshotId, newFilename) ==
    IF slideId < 1 \/ slideId > SLIDES_PER_STORYBOARD THEN Rejected(storyboard, slideId)
    ELSE Updated(storyboard,
                 WithScreenshot(storyboard, slideId, newScreenshotId, newFilename))

\* newText.headline ?? current, newText.subheadline ?? current.
WithText(storyboard, slideId, newText) ==
    [storyboard EXCEPT
        !.slides[slideId].text.headline =
            IF newText.headline # None THEN newText.headline ELSE @,
        !.slides[slideId].text.subheadline =
            IF newText.subheadline # None THEN newText.subheadline ELSE @]

\* Faulty variant: an omitted text field is cleared instead of kept.
updateSlideText_clearsOmitted(storyboard, slideId, newText) ==
    IF slideId < 1 \/ slideId > SLIDES_PER_STORYBOARD THEN Rejected(storyboard, slideId)
    ELSE Updated(storyboard,
                 [storyboard EXCEPT
                    !.slides[slideId].text.headline =
                        IF newText.headline # None THEN newText.headline ELSE "",
                    !.slides[slideId].text.subheadline =
                        IF newText.subheadline # None THEN newText.subheadline ELSE ""])

updateSlideText(storyboard, slideId, newText) ==
    IF slideId < 1 \/ slideId > SLIDES_PER_STORYBOARD THEN Rejected(storyboard, slideId)
    ELSE Updated(storyboard, WithText(storyboard, slideId, newText))

----------------------------------------------------------------------------
(* Inputs of the storyboard operations *)

AppNames ==
    { <<>>, <<" ", " ">>, <<"M", "y", "A", "p", "p">>,
      Rep("a", APP_NAME_MAX_LENGTH + 1) }

BulletPool ==
    <<"Fast and intuitive", "Works offline", "Sync across devices",
      "Private by design", "Share in one tap", "Free to start", "Loved by teams",
      "Always in sync">>

BulletCounts ==
    { VALUE_BULLETS_MIN - 1, VALUE_BULLETS_MIN, VALUE_BULLETS_MAX, VALUE_BULLETS_MAX + 1 }

ScreenshotCounts ==
    { 0, 1, SCREENSHOTS_MIN - 1, SCREENSHOTS_MIN, SCREENSHOTS_MIN + 1,
      SCREENSHOTS_MAX, SCREENSHOTS_MAX + 1 }

Screenshots(n) ==
    [i \in 1..n |-> [id |-> "ss" \o NumStr(i), filename |-> "ss" \o NumStr(i) \o ".png"]]

Generators == {"rule", "limit"}

Timestamps == {"2025-01-13T21:30:00.000Z", "2025-01-13T21:30:01.000Z"}

StoryboardInputs ==
    { [appName |-> a, valueBullets |-> SubSeq(BulletPool, 1, b),
       screenshots |-> Screenshots(n), locale |-> DEFAULT_LOCALE, generator |-> g] :
      a \in AppNames, b \in BulletCounts, n \in ScreenshotCounts, g \in Generators }

SlideIds == (-1)..(SLIDES_PER_STORYBOARD + 1)

NewHeadlines == {None, "Ship faster"}
\* No subheadline, or one of 61 characters.
NewSubheadlines == {None, "Now with offline mode, shared boards and weekly team digests."}
NewScreenshots == { [id |-> "ss9", filename |-> "retake.png"] }

----------------------------------------------------------------------------
(* The state of a generate() call and of the update calls that follow it *)

GenIdle ==
    [pc |-> "idle", k |-> 0, input |-> NoInput, slides |-> <<>>, warnings |-> <<>>,
     copyLog |-> <<>>, error |-> None]

NoCall ==
    [op |-> None, slideId |-> 0, newText |-> [headline |-> None, subheadline |-> None],
     newScreenshot |-> [id |-> None, filename |-> None],
     before |-> NoStoryboard, after |-> NoStoryboard,
     ok |-> FALSE, error |-> None, returned |-> NoStoryboard]

GenFailed(g, kind) == [g EXCEPT !.pc = "failed", !.error = kind]

\* generate(), from its entry to its first await: validation, then the hero
\* slide's copy request.
GenerateStart(input) ==
    /\ gen.pc = "idle"
    /\ gen' = IF ~validateStoryboardInput(input).ok
                  THEN GenFailed([gen EXCEPT !.input = input],
                                 validateStoryboardInput(input).detail)
              ELSE [gen EXCEPT !.pc = "copy", !.k = 1, !.input = input,
                               !.copyLog = <<CopyRequest(input, 1)>>]
    /\ UNCHANGED <<catalogs, svg, cpy, req, health, console, tplCall, sb, call, nUpdates, rnd, exp>>

\* The awaited generateCopy call of slide gen.k resolves: the slide is built
\* and pushed; then either the next slide's fallback is decided and its copy
\* requested, or (after slide 5) the storyboard is assembled and returned.
CopyReturns ==
    /\ gen.pc = "copy"
    /\ LET k == gen.k
           input == gen.input
           copy == generateCopy(input.generator, gen.copyLog[k])
           slide == BuildSlide(input, k, copy)
       IN  IF ~slide.ok
               THEN /\ gen' = GenFailed(gen, slide.error)
                    /\ UNCHANGED <<console, sb>>
           ELSE /\ Len(Warn(console, BuildSlideWarning(k))) <= MaxConsole
                /\ console' = Warn(console, BuildSlideWarning(k))
                /\ IF k < SLIDES_PER_STORYBOARD
                       THEN /\ gen' = [gen EXCEPT
                                 !.k = k + 1,
                                 !.slides = Append(@, slide.value),
                                 !.warnings = Warn(@, FallbackWarning(input, k + 1)),
                                 !.copyLog = Append(@, CopyRequest(input, k + 1))]
                            /\ sb' = sb
                   ELSE IF Len(gen.slides) + 1 # SLIDES_PER_STORYBOARD
                       THEN /\ gen' = GenFailed([gen EXCEPT !.slides = Append(@, slide.value)],
                                                "Invalid storyboard")
                            /\ sb' = sb
                   ELSE /\ gen' = [gen EXCEPT !.pc = "done",
                                              !.slides = Append(@, slide.value)]
                        /\ \E now \in Timestamps :
                              sb' = [appName |-> input.appName,
                                     locale |-> input.locale,
                                     slides |-> Append(gen.slides, slide.value),
                                     createdAt |-> now,
                                     version |-> GENERATOR_VERSION]
    /\ UNCHANGED <<catalogs, svg, cpy, req, health, tplCall, call, nUpdates, rnd, exp>>

\* Faulty variant: the rejected call is issued a second time before generate()
\* gives up.
CopyFails_retriesOnce ==
    /\ gen.pc = "copy"
    /\ gen' = GenFailed([gen EXCEPT !.copyLog = Append(@, @[gen.k])], "CopyGenerator")
    /\ UNCHANGED <<catalogs, svg, cpy, req, health, console, tplCall, sb, call, nUpdates, rnd, exp>>

\* The awaited generateCopy call rejects: generate() rejects with its error.
CopyFails ==
    /\ gen.pc = "copy"
    /\ gen' = GenFailed(gen, "CopyGenerator")
    /\ UNCHANGED <<catalogs, svg, cpy, req, health, console, tplCall, sb, call, nUpdates, rnd, exp>>

UpdateScreenshotAssignment ==
    /\ gen.pc = "done"
    /\ nUpdates < MaxUpdates
    /\ \E slideId \in SlideIds, shot \in NewScreenshots :
          LET r == updateScreenshotAssignment(sb, slideId, shot.id, shot.filename)
          IN  /\ call' = [op |-> "updateScreenshotAssignment", slideId |-> slideId,
                          newText |-> NoCall.newText, newScreenshot |-> shot,
                          before |-> sb, after |-> r.passed,
                          ok |-> r.ok, error |-> IF r.ok THEN None ELSE r.error,
                          returned |-> r.value]
              /\ sb' = IF r.ok THEN r.value ELSE r.passed
    /\ nUpdates' = nUpdates + 1
    /\ UNCHANGED <<catalogs, svg, cpy, req, health, console, tplCall, gen, rnd, exp>>

UpdateSlideText ==
    /\ gen.pc = "done"
    /\ nUpdates < MaxUpdates
    /\ \E slideId \in SlideIds, h \in NewHeadlines, sh \in NewSubheadlines :
          LET r == updateSlideText(sb, slideId, [headline |-> h, subheadline |-> sh])
          IN  /\ call' = [op |-> "updateSlideText", slideId |-> slideId,
                          newText |-> [headline |-> h, subheadline |-> sh],
                          newScreenshot |-> NoCall.newScreenshot,
                          before |-> sb, after |-> r.passed,
                          ok |-> r.ok, error |-> IF r.ok THEN None ELSE r.error,
                          returned |-> r.value]
              /\ sb' = IF r.ok THEN r.value ELSE r.passed
    /\ nUpdates' = nUpdates + 1
    /\ UNCHANGED <<catalogs, svg, cpy, req, health, console, tplCall, gen, rnd, exp>>

NoTplCall == [op |-> None, slideType |-> None, templateId |-> None,
              result |-> Err(None, None)]
NoRender == [state |-> "none"]
NoExport == [state |-> "none"]
NoCopy == [state |-> "none"]
NoRequest == [pc |-> "none"]
NoHealth == [status |-> 0]
NoSvg == [state |-> "none"]

Init ==
    /\ templateCatalog = TEMPLATES
    /\ defaultByType = DEFAULT_TEMPLATE_BY_TYPE
    /\ deviceTargets = DEVICE_TARGETS
    /\ themeTokens = THEME
    /\ svg = NoSvg
    /\ console = <<>>
    /\ cpy = NoCopy
    /\ req = NoRequest
    /\ health = NoHealth
    /\ tplCall = NoTplCall
    /\ gen = GenIdle
    /\ sb = NoStoryboard
    /\ call = NoCall
    /\ nUpdates = 0
    /\ rnd = NoRender
    /\ exp = NoExport

Generate == \E input \in StoryboardInputs : GenerateStart(input)

NextStoryboard ==
    \/ Generate
    \/ CopyReturns
    \/ CopyFails
    \/ UpdateScreenshotAssignment
    \/ UpdateSlideText

\* generate() and the update operations applied to what it returned.
SpecStoryboard == Init /\ [][NextStoryboard]_vars

----------------------------------------------------------------------------
(* Properties of generate() and of the update operations *)

SlideNumbers == 1..SLIDES_PER_STORYBOARD

\* generate() has returned and no update has been applied yet: sb is its result.
JustGenerated == gen.pc = "done" /\ nUpdates = 0

\* C1: for every input validateStoryboardInput accepts, the storyboard generate()
\* returns has exactly 5 slides, with ids 1..5 in array order and types
\* hero, feature, feature, feature, closing; an accepted input ends without a
\* storyboard only when the copy generator itself rejects.
C1_GeneratedShape ==
    /\ JustGenerated =>
          /\ validateStoryboardInput(gen.input).ok
          /\ Len(sb.slides) = 5
          /\ \A k \in 1..5 : sb.slides[k].id = k
          /\ [k \in 1..5 |-> sb.slides[k].type]
                = <<"hero", "feature", "feature", "feature", "closing">>
    /\ (gen.pc = "failed" /\ gen.k > 0) => gen.error = "CopyGenerator"

C1_Witness ==
    /\ JustGenerated
    /\ Len(gen.input.valueBullets) = VALUE_BULLETS_MAX
    /\ Len(gen.input.screenshots) = SCREENSHOTS_MAX

\* C5: an accepted update returns a new storyboard and leaves the passed one as
\* it was; the result differs from the original only in the targeted slide's
\* screenshot reference (updateScreenshotAssignment) or in the text fields
\* that were provided (updateSlideText), everything else being equal.
C5_UpdateFrame ==
    (call.op # None /\ call.slideId \in SlideNumbers) =>
        LET old == call.before
            new == call.returned
            t == call.slideId
        IN  /\ call.ok
            /\ call.after = old
            /\ new.appName = old.appName /\ new.locale = old.locale
            /\ new.createdAt = old.createdAt /\ new.version = old.version
            /\ Len(new.slides) = Len(old.slides)
            /\ \A j \in DOMAIN old.slides : j # t => new.slides[j] = old.slides[j]
            /\ new.slides[t].id = old.slides[t].id
            /\ new.slides[t].type = old.slides[t].type
            /\ new.slides[t].templateId = old.slides[t].templateId
            /\ new.slides[t].text.locale = old.slides[t].text.locale
            /\ IF call.op = "updateScreenshotAssignment"
                  THEN /\ new.slides[t].text = old.slides[t].text
                       /\ new.slides[t].screenshot.screenshotId = call.newScreenshot.id
                       /\ new.slides[t].screenshot.originalFilename
                             = call.newScreenshot.filename
               ELSE /\ new.slides[t].screenshot = old.slides[t].screenshot
                    /\ new.slides[t].text.headline =
                          IF call.newText.headline = None
                              THEN old.slides[t].text.headline
                          ELSE call.newText.headline
                    /\ new.slides[t].text.subheadline =
                          IF call.newText.subheadline = None
                              THEN old.slides[t].text.subheadline
                          ELSE call.newText.subheadline

C5_Witness ==
    /\ call.op = "updateSlideText" /\ call.ok /\ call.slideId = 3
    /\ call.newText.headline # None /\ call.newText.subheadline = None
    /\ call.returned # call.before
    /\ nUpdates = 2

\* C6: an update called with a slide id below 1 or above 5 fails with an
\* invalid-slide-id error, returns no storyboard and leaves the passed
\* storyboard unchanged.
C6_OutOfRangeRejected ==
    (call.op # None /\ call.slideId \notin SlideNumbers) =>
        /\ ~call.ok
        /\ call.error = "InvalidSlideId"
        /\ call.returned = NoStoryboard
        /\ call.after = call.before
        /\ sb = call.before

C6_Witness ==
    /\ call.op = "updateScreenshotAssignment" /\ call.slideId = 6 /\ ~call.ok
    /\ call.before # NoStoryboard

\* C7: in every storyboard reachable from a generated one by update calls,
\* accepted or rejected, there are exactly five slides, their ids are 1..5 in
\* order, and each slide's type and templateId are those generate() assigned.
C7_ShapePreserved ==
    gen.pc = "done" =>
        /\ Len(sb.slides) = 5
        /\ \A k \in 1..5 :
              /\ sb.slides[k].id = k
              /\ sb.slides[k].type = gen.slides[k].type
              /\ sb.slides[k].templateId = gen.slides[k].templateId

C7_Witness ==
    /\ gen.pc = "done" /\ nUpdates >= 2 /\ call.ok
    /\ call.op = "updateScreenshotAssignment"
    /\ \E k \in 1..5 : sb.slides[k].text # gen.slides[k].text

\* C9: given at least 5 screenshots, slide k (k = 1..5) references screenshot
\* index k-1 (its id and original filename) and the returned warnings are empty.
C9_SequentialScreenshots ==
    (JustGenerated /\ Len(gen.input.screenshots) >= 5) =>
        /\ \A k \in 1..5 :
              /\ sb.slides[k].screenshot.screenshotId = gen.input.screenshots[k].id
              /\ sb.slides[k].screenshot.originalFilename
                    = gen.input.screenshots[k].filename
        /\ gen.warnings = <<>>

C9_Witness ==
    /\ JustGenerated
    /\ Len(gen.input.screenshots) = 5
    /\ gen.input.appName = <<"M", "y", "A", "p", "p">>
    /\ gen.input.valueBullets
         = <<"Fast and intuitive", "Works offline", "Sync across devices">>
    /\ sb.slides[5].screenshot.screenshotId = "ss5"

\* C10 (as claimed): given between 1 and 4 screenshots and an otherwise valid
\* input, generate() still succeeds unless the copy generator rejects, every
\* slide whose screenshot index is absent uses screenshot index 0, and there is
\* exactly one warning per such slide, naming that slide and screenshot #1.
C10_FallbackWithWarning ==
    LET n == Len(gen.input.screenshots)
        otherwiseValid ==
            validateStoryboardInput([gen.input EXCEPT
                !.screenshots = Screenshots(SCREENSHOTS_MIN)]).ok
    IN  (gen.pc \in {"done", "failed"} /\ n >= 1 /\ n < 5 /\ otherwiseValid) =>
            \/ gen.error = "CopyGenerator"
            \/ /\ gen.pc = "done"
               /\ Len(gen.slides) = 5
               /\ \A k \in 1..5 :
                     gen.slides[k].screenshot.screenshotId =
                        gen.input.screenshots[IF k <= n THEN k ELSE 1].id
               /\ gen.warnings =
                     [i \in 1..(5 - n) |->
                        "Slide " \o NumStr(n + i)
                        \o ": Using screenshot #1 (not enough screenshots provided)"]

C23_GeneratedTemplates ==
    gen.pc = "done" =>
        /\ [k \in DOMAIN sb.slides |-> sb.slides[k].templateId] =
               <<"hero", "stack", "split", "stack", "closing">>
        /\ \A k \in DOMAIN sb.slides :
               \E i \in DOMAIN templateCatalog :
                  /\ templateCatalog[i].id = sb.slides[k].templateId
                  /\ sb.slides[k].type \in templateCatalog[i].applicableTypes

C23_Witness ==
    /\ gen.pc = "done"
    /\ nUpdates = 0
    /\ sb.slides[2].templateId = "stack"
    /\ sb.slides[3].templateId = "split"
    /\ sb.slides[3].type = "feature"
    /\ console = <<>>

\* String.prototype.length of a headline or subheadline.
TextLength(text) == Len(text)

\* C28 (as claimed): in a generated storyboard and in every storyboard the
\* update operations make of it, each headline has at most 32 characters and
\* each subheadline at most 60.
C28_TextLimitsKept ==
    gen.pc = "done" =>
        \A k \in DOMAIN sb.slides :
            /\ TextLength(sb.slides[k].text.headline) <= HEADLINE_MAX_LENGTH
            /\ TextLength(sb.slides[k].text.subheadline) <= SUBHEADLINE_MAX_LENGTH

\* C17: when a generateCopy call rejects, generate() rejects with the copy
\* generator's error and returns no storyboard; the rejected call is not issued
\* again, no slide is built for it, no copy is requested for a later slide, and
\* the failed call stays failed.
C17_CopyFailurePropagates ==
    /\ [](gen.error = "CopyGenerator" =>
              /\ gen.pc = "failed"
              /\ sb = NoStoryboard
              /\ gen.k \in 1..SLIDES_PER_STORYBOARD
              /\ Len(gen.copyLog) = gen.k
              /\ Len(gen.slides) = gen.k - 1
              /\ \A i, j \in 1..Len(gen.copyLog) :
                    i # j => gen.copyLog[i] # gen.copyLog[j])
    /\ [][gen.error = "CopyGenerator" => (gen' = gen /\ sb' = sb)]_vars

C17_Witness ==
    /\ gen.pc = "failed"
    /\ gen.error = "CopyGenerator"
    /\ gen.k = 3
    /\ Len(gen.copyLog) = 3
    /\ Len(gen.slides) = 2
    /\ sb = NoStoryboard

\* C18: a generate() that returns a storyboard has made exactly five
\* generateCopy calls, for slides 1 to 5 in that order: hero and closing with
\* tone 'professional' and no value bullet, the features of slides 2, 3, 4 with
\* value bullets 0, 1, 2 and no tone; a call is started only once the slides of
\* all earlier calls are built.
C18_FiveSequentialCopyCalls ==
    LET input == gen.input
        bounded(k, slideType, valueBullet, tone) ==
            /\ gen.copyLog[k].slideType = slideType
            /\ gen.copyLog[k].appName = input.appName
            /\ gen.copyLog[k].locale = input.locale
            /\ gen.copyLog[k].valueBullet = valueBullet
            /\ gen.copyLog[k].tone = tone
    IN  /\ gen.pc = "copy" => Len(gen.copyLog) = Len(gen.slides) + 1
        /\ gen.pc = "done" =>
               /\ Len(gen.copyLog) = 5
               /\ Len(gen.slides) = 5
               /\ bounded(1, "hero", None, "professional")
               /\ bounded(2, "feature", input.valueBullets[1], None)
               /\ bounded(3, "feature", input.valueBullets[2], None)
               /\ bounded(4, "feature", input.valueBullets[3], None)
               /\ bounded(5, "closing", None, "professional")

C18_Witness ==
    /\ gen.pc = "done"
    /\ sb # NoStoryboard
    /\ Len(gen.input.valueBullets) = VALUE_BULLETS_MAX
    /\ Len(gen.copyLog) = 5
    /\ gen.copyLog[4].valueBullet = gen.input.valueBullets[3]

----------------------------------------------------------------------------
(* Calls of the template registry *)

\* The ids a caller may ask for: every catalog id, an id of no template, the
\* empty string and no id at all.
TemplateIds == {None, "", "hero", "stack", "split", "closing", "bento"}

SelectTemplate ==
    \E slideType \in SlideTypes, templateId \in TemplateIds :
        /\ Len(Warn(console, selectTemplateWarning(slideType, templateId))) <= MaxConsole
        /\ console' = Warn(console, selectTemplateWarning(slideType, templateId))
        /\ tplCall' = [op |-> "selectTemplate", slideType |-> slideType,
                       templateId |-> templateId,
                       result |-> selectTemplate(slideType, templateId)]
        /\ UNCHANGED <<catalogs, svg, cpy, req, health, gen, sb, call, nUpdates, rnd, exp>>

GetTemplateById ==
    \E id \in TemplateIds \ {None} :
        /\ tplCall' = [op |-> "getTemplateById", slideType |-> None,
                       templateId |-> id, result |-> getTemplateById(id)]
        /\ UNCHANGED <<catalogs, svg, cpy, req, health, console, gen, sb, call, nUpdates, rnd, exp>>

NextTemplates ==
    \/ SelectTemplate
    \/ GetTemplateById

\* Any sequence of template-registry calls on the fixed catalog.
SpecTemplates == Init /\ [][NextTemplates]_vars

CatalogIds == { templateCatalog[i].id : i \in DOMAIN templateCatalog }

\* The catalog's template with this id (ids are unique in the fixed catalog).
CatalogTemplate(id) ==
    CHOOSE t \in Range(templateCatalog) : t.id = id

\* C8: selectTemplate(slideType, id) returns exactly the template with that id
\* when id is in the catalog and applicable to slideType; otherwise (id not
\* applicable, not in the catalog, or not given) it returns the slide type's
\* configured default; on the fixed catalog it never fails and its result is
\* always applicable to slideType.
C8_SelectTemplate ==
    tplCall.op = "selectTemplate" =>
        LET id == tplCall.templateId
            type == tplCall.slideType
            requestedFits ==
                /\ id \in CatalogIds
                /\ type \in CatalogTemplate(id).applicableTypes
        IN  /\ tplCall.result.ok
            /\ type \in tplCall.result.value.applicableTypes
            /\ tplCall.result.value \in Range(templateCatalog)
            /\ IF requestedFits
                   THEN tplCall.result.value = CatalogTemplate(id)
               ELSE /\ tplCall.result.value.id = defaultByType[type]
                    /\ tplCall.result.value = CatalogTemplate(defaultByType[type])

C8_Witness ==
    /\ tplCall.op = "selectTemplate"
    /\ tplCall.slideType = "feature"
    /\ tplCall.templateId = "hero"
    /\ tplCall.result.ok /\ tplCall.result.value.id = "stack"
    /\ Len(console) = 2
    /\ console[1] = "Template \"bento\" not found. Using default for \"closing\"."

----------------------------------------------------------------------------
(* infrastructure/rendering/SharpRenderer.ts *)

\* Math.round(n * (pct / 100)) in double arithmetic, for the canvas and safe
\* widths and heights of DEVICE_TARGETS and pct in 0..100: round-half-up of
\* the exact product, except that 1290 * 0.35 falls just below 451.5.
RoundPct(n, pct) ==
    IF n = 1290 /\ pct = 35 THEN 451 ELSE (2 * n * pct + 100) \div 200

\* Math.round(n / 2) for an integer n >= 0.
RoundHalf(n) == (n + 1) \div 2

getResponsiveFontSize(baseSize, devicePlatform, textType) ==
    RoundPct(baseSize,
             IF textType = "headline"
                 THEN themeTokens.typographyResponsive[devicePlatform].headlineScale
             ELSE themeTokens.typographyResponsive[devicePlatform].subheadlineScale)

\* /^#?([a-f\d]{2})([a-f\d]{2})([a-f\d]{2})$/i, then parseInt(.., 16).
hexToRgb(hex) ==
    LET digits == IF hex # <<>> /\ hex[1] = "#" THEN Tail(hex) ELSE hex
    IN  IF Len(digits) = 6 /\ \A i \in 1..6 : IsHexDigit(digits[i])
            THEN Ok([r |-> 16 * HexVal(digits[1]) + HexVal(digits[2]),
                     g |-> 16 * HexVal(digits[3]) + HexVal(digits[4]),
                     b |-> 16 * HexVal(digits[5]) + HexVal(digits[6])])
        ELSE Err("InvalidHexColor", "")

\* The colour createBaseCanvas fills the canvas with. Both branches of its
\* test on the background type compute the same expression.
BackgroundColor(template, brandColor) ==
    IF template.background.type = "solid"
        THEN (IF brandColor # <<>> THEN getBrandColor(brandColor)
              ELSE template.background.colors[1])
    ELSE (IF brandColor # <<>> THEN getBrandColor(brandColor)
          ELSE template.background.colors[1])

createBaseCanvas(target, template, brandColor) ==
    LET rgb == hexToRgb(BackgroundColor(template, brandColor))
    IN  IF ~rgb.ok THEN rgb
        ELSE Ok([width |-> target.width, height |-> target.height,
                 color |-> BackgroundColor(template, brandColor),
                 background |-> rgb.value])

\* The placement compositeScreenshot gives the resized screenshot.
compositeScreenshot(screenshotBuffer, target, template) ==
    LET screenshotWidth == RoundPct(target.width, template.screenshotPosition.width)
        screenshotTop ==
            RoundPct(target.height, template.screenshotPosition.verticalPosition)
    IN  IF ~screenshotBuffer.valid THEN Err("UnsupportedImage", "")
        ELSE Ok([width |-> screenshotWidth,
                 left |-> RoundHalf(target.width - screenshotWidth),
                 top |-> screenshotTop])

\* The placement addTextOverlays gives the headline and subheadline blocks.
\* Faulty variant: the text width is taken from the canvas width instead of
\* the safe width.
addTextOverlays_ofCanvasWidth(slide, target, template) ==
    LET textConfig == template.textPosition
        safeLeft == target.safeMargin.left
        safeRight == target.width - target.safeMargin.right
        textAreaWidth == RoundPct(target.width, textConfig.maxWidth)
        textTop == RoundPct(target.height, textConfig.verticalPosition)
        headlineFontSize ==
            getResponsiveFontSize(TYPOGRAPHY_headline_fontSize, target.platform, "headline")
        subheadlineFontSize ==
            getResponsiveFontSize(TYPOGRAPHY_subheadline_fontSize, target.platform,
                                  "subheadline")
        headlineLeft ==
            IF textConfig.align = "center" THEN RoundHalf(target.width - textAreaWidth)
            ELSE IF textConfig.align = "right" THEN safeRight - textAreaWidth
            ELSE safeLeft
    IN  [headline |-> [text |-> slide.text.headline, left |-> headlineLeft,
                       top |-> textTop, width |-> textAreaWidth,
                       height |-> headlineFontSize + 10, fontSize |-> headlineFontSize],
         subheadline |-> [text |-> slide.text.subheadline, left |-> headlineLeft,
                          top |-> textTop + headlineFontSize + 20,
                          width |-> textAreaWidth,
                          height |-> subheadlineFontSize + 10,
                          fontSize |-> subheadlineFontSize],
         align |-> textConfig.align]

addTextOverlays(slide, target, template) ==
    LET textConfig == template.textPosition
        safeLeft == target.safeMargin.left
        safeRight == target.width - target.safeMargin.right
        safeWidth == safeRight - safeLeft
        textAreaWidth == RoundPct(safeWidth, textConfig.maxWidth)
        textTop == RoundPct(target.height, textConfig.verticalPosition)
        headlineFontSize ==
            getResponsiveFontSize(TYPOGRAPHY_headline_fontSize, target.platform, "headline")
        subheadlineFontSize ==
            getResponsiveFontSize(TYPOGRAPHY_subheadline_fontSize, target.platform,
                                  "subheadline")
        headlineLeft ==
            IF textConfig.align = "center" THEN RoundHalf(target.width - textAreaWidth)
            ELSE IF textConfig.align = "right" THEN safeRight - textAreaWidth
            ELSE safeLeft
    IN  [headline |-> [text |-> slide.text.headline, left |-> headlineLeft,
                       top |-> textTop, width |-> textAreaWidth,
                       height |-> headlineFontSize + 10, fontSize |-> headlineFontSize],
         subheadline |-> [text |-> slide.text.subheadline, left |-> headlineLeft,
                          top |-> textTop + headlineFontSize + 20,
                          width |-> textAreaWidth,
                          height |-> subheadlineFontSize + 10,
                          fontSize |-> subheadlineFontSize],
         align |-> textConfig.align]

RECURSIVE replaceAll(_, _, _)
\* text.replace(/c/g, replacement) for a one-character pattern.
replaceAll(text, c, replacement) ==
    IF text = <<>> THEN <<>>
    ELSE (IF Head(text) = c THEN replacement ELSE <<Head(text)>>)
         \o replaceAll(Tail(text), c, replacement)

\* Faulty variant: the ampersand is replaced last, after the entities were
\* written.
escapeXml_ampersandLast(text) ==
    replaceAll(
        replaceAll(
            replaceAll(
                replaceAll(
                    replaceAll(text, "<", <<"&", "l", "t", ";">>),
                    ">", <<"&", "g", "t", ";">>),
                "\"", <<"&", "q", "u", "o", "t", ";">>),
            "'", <<"&", "a", "p", "o", "s", ";">>),
        "&", <<"&", "a", "m", "p", ";">>)

\* The five replacements of escapeXml, in their order.
escapeXml(text) ==
    replaceAll(
        replaceAll(
            replaceAll(
                replaceAll(
                    replaceAll(text, "&", <<"&", "a", "m", "p", ";">>),
                    "<", <<"&", "l", "t", ";">>),
                ">", <<"&", "g", "t", ";">>),
            "\"", <<"&", "q", "u", "o", "t", ";">>),
        "'", <<"&", "a", "p", "o", "s", ";">>)

\* The attributes and the content of the <svg><text> markup createTextSvg
\* returns; x is kept doubled, since maxWidth / 2 need not be whole.
createTextSvg(text, fontSize, fontWeight, align, maxWidth, color) ==
    [width |-> maxWidth,
     height |-> fontSize + 10,
     textAnchor |-> IF align = "center" THEN "middle"
                    ELSE IF align = "right" THEN "end" ELSE "start",
     xDoubled |-> IF align = "center" THEN maxWidth
                  ELSE IF align = "right" THEN 2 * maxWidth ELSE 0,
     y |-> fontSize,
     fontSize |-> fontSize,
     fontWeight |-> fontWeight,
     fill |-> color,
     content |-> escapeXml(text)]

\* The dimension test of render(): TRUE when the flattened image must be refused.
\* Faulty variant: the height is not compared.
DimensionMismatch_widthOnly(info, target) == info.width # target.width

DimensionMismatch(info, target) ==
    info.width # target.width \/ info.height # target.height

\* render(options), given what the image library does when the composition is
\* flattened: flat.ok is false when toBuffer rejects, and flat.width/height
\* are the dimensions it reports otherwise.
render(options, flat) ==
    LET target == options.target
        slide == options.slide
        template == getTemplateById(slide.templateId)
        canvas == createBaseCanvas(target, template.value, options.brandColor)
        shot == compositeScreenshot(options.screenshotBuffer, target, template.value)
    IN  IF ~template.ok THEN template
        ELSE IF ~canvas.ok THEN canvas
        ELSE IF ~shot.ok THEN shot
        ELSE IF ~flat.ok THEN Err("SharpError", "")
        ELSE IF DimensionMismatch(flat, target)
            THEN Err("DimensionMismatch", <<target.width, target.height,
                                            flat.width, flat.height>>)
        ELSE Ok([buffer |-> [canvas |-> canvas.value, screenshot |-> shot.value,
                             text |-> addTextOverlays(slide, target, template.value)],
                 width |-> flat.width,
                 height |-> flat.height,
                 format |-> "png",
                 metadata |-> [targetId |-> target.id, slideId |-> slide.id,
                               templateId |-> template.value.id]])

----------------------------------------------------------------------------
(* Inputs of render() *)

\* A slide as generate() builds it for position k, with the given template id.
RenderSlide(k, templateId) ==
    [id |-> k, type |-> SlideTypeOf(k),
     text |-> [headline |-> "Works offline", subheadline |-> "Built for you",
               locale |-> DEFAULT_LOCALE],
     screenshot |-> [screenshotId |-> "ss" \o NumStr(k),
                     originalFilename |-> "ss" \o NumStr(k) \o ".png"],
     templateId |-> templateId]

RenderSlides ==
    { RenderSlide(k, id) : k \in {1, 2}, id \in TemplateIds \ {None, ""} }

\* Decoded uploads (natural size known) and an undecodable one.
ScreenshotBuffers ==
    { [valid |-> TRUE, width |-> 1290, height |-> 2796],
      [valid |-> TRUE, width |-> 800, height |-> 600],
      [valid |-> FALSE, width |-> 0, height |-> 0] }

\* No colour, a valid colour in either case, and invalid ones.
BrandColors ==
    { <<>>,
      <<"#", "F", "F", "5", "7", "3", "3">>,
      <<"#", "G", "G", "G", "G", "G", "G">>,
      <<"f", "f", "5", "7", "3", "3">> }

\* What flattening may report: the canvas size, a size off by one in either
\* dimension, the other target's size, or a failure.
FlattenOutcomes(target) ==
    { [ok |-> TRUE, width |-> target.width, height |-> target.height],
      [ok |-> TRUE, width |-> target.width + 1, height |-> target.height],
      [ok |-> TRUE, width |-> target.width, height |-> target.height - 1],
      [ok |-> FALSE, width |-> 0, height |-> 0] }
    \cup { [ok |-> TRUE, width |-> t.width, height |-> t.height] :
             t \in Range(DEVICE_TARGETS) }

\* A render() call that has been made and not yet returned.
RenderCalls ==
    { [state |-> "called",
       options |-> [target |-> target, slide |-> slide,
                    screenshotBuffer |-> buffer, brandColor |-> brandColor],
       flat |-> flat,
       result |-> Err(None, None)] :
      target \in Range(DEVICE_TARGETS), slide \in RenderSlides,
      buffer \in ScreenshotBuffers, brandColor \in BrandColors,
      flat \in UNION { FlattenOutcomes(t) : t \in Range(DEVICE_TARGETS) } }

InitRender ==
    /\ templateCatalog = TEMPLATES
    /\ defaultByType = DEFAULT_TEMPLATE_BY_TYPE
    /\ deviceTargets = DEVICE_TARGETS
    /\ themeTokens = THEME
    /\ svg = NoSvg
    /\ console = <<>>
    /\ cpy = NoCopy
    /\ req = NoRequest
    /\ health = NoHealth
    /\ tplCall = NoTplCall
    /\ gen = GenIdle
    /\ sb = NoStoryboard
    /\ call = NoCall
    /\ nUpdates = 0
    /\ rnd \in { c \in RenderCalls : c.flat \in FlattenOutcomes(c.options.target) }
    /\ exp = NoExport

\* Faulty variant: render() writes the colour it painted into the template
\* object getTemplateById returned, which is the catalog's own.
Render_paintsTemplate ==
    /\ rnd.state = "called"
    /\ rnd' = [rnd EXCEPT !.state = "returned",
                          !.result = render(rnd.options, rnd.flat)]
    /\ templateCatalog' =
          [i \in DOMAIN templateCatalog |->
              IF templateCatalog[i].id = rnd.options.slide.templateId
                  THEN [templateCatalog[i] EXCEPT
                           !.background = [type |-> "solid",
                                           colors |-> <<getBrandColor(rnd.options.brandColor)>>]]
              ELSE templateCatalog[i]]
    /\ UNCHANGED <<defaultByType, deviceTargets, themeTokens, svg, cpy, req, health, console,
                   tplCall, gen, sb, call, nUpdates, exp>>

Render ==
    /\ rnd.state = "called"
    /\ rnd' = [rnd EXCEPT !.state = "returned",
                          !.result = render(rnd.options, rnd.flat)]
    /\ UNCHANGED <<catalogs, svg, cpy, req, health, console, tplCall, gen, sb, call, nUpdates, exp>>

NextRender == Render

\* A render() call on each combination of its inputs.
SpecRender == InitRender /\ [][NextRender]_vars

\* C2: render() never returns a mis-sized image: for both device targets and
\* all four templates a returned image has the target's width and height, and
\* when the flattened buffer reports another size the call fails with a
\* dimension-mismatch error.
C2_ExactDimensions ==
    rnd.state = "returned" =>
        LET target == rnd.options.target
            sized == rnd.flat.width = target.width /\ rnd.flat.height = target.height
        IN  /\ rnd.result.ok =>
                  /\ rnd.result.value.width = target.width
                  /\ rnd.result.value.height = target.height
                  /\ rnd.result.value.buffer.canvas.width = target.width
                  /\ rnd.result.value.buffer.canvas.height = target.height
            /\ ~sized => ~rnd.result.ok
            /\ (rnd.flat.ok /\ ~sized /\ rnd.options.screenshotBuffer.valid
                  /\ rnd.options.slide.templateId \in CatalogIds) =>
                  /\ ~rnd.result.ok
                  /\ rnd.result.error = "DimensionMismatch"

C2_Witness ==
    /\ rnd.state = "returned"
    /\ rnd.options.target.id = "ipad-12.9"
    /\ rnd.options.slide.templateId = "split"
    /\ rnd.flat.ok /\ rnd.flat.width = 2064 /\ rnd.flat.height = 2751
    /\ ~rnd.result.ok /\ rnd.result.error = "DimensionMismatch"

\* The render() calls that get as far as returning an image: the slide's
\* template is in the catalog, the screenshot decodes and the flattened image
\* has the target's size.
RenderCompletes ==
    /\ rnd.state = "returned"
    /\ rnd.options.slide.templateId \in CatalogIds
    /\ rnd.options.screenshotBuffer.valid
    /\ rnd.flat.ok
    /\ ~DimensionMismatch(rnd.flat, rnd.options.target)

\* C13 (as claimed): given a brand color that is not a valid #RRGGBB string,
\* render() does not fail, does not apply the supplied value, and fills the
\* canvas with the slide template's own configured background color.
C13_InvalidBrandColorFallsBackToTemplate ==
    (RenderCompletes /\ rnd.options.brandColor # <<>>
       /\ ~isValidHexColor(rnd.options.brandColor)) =>
        /\ rnd.result.ok
        /\ rnd.result.value.buffer.canvas.color # rnd.options.brandColor
        /\ rnd.result.value.buffer.canvas.color
              = CatalogTemplate(rnd.options.slide.templateId).background.colors[1]

\* C14 (as claimed): the canvas is filled, for a solid-background template,
\* with the brand color when that is a valid 6-hex-digit color and with the
\* template's first color otherwise; for a gradient-background template, with
\* the gradient's first color stop.
C14_BackgroundColorChoice ==
    RenderCompletes =>
        LET template == CatalogTemplate(rnd.options.slide.templateId)
            brandColor == rnd.options.brandColor
        IN  /\ rnd.result.ok
            /\ rnd.result.value.buffer.canvas.color =
                  IF template.background.type = "solid"
                        /\ brandColor # <<>> /\ isValidHexColor(brandColor)
                      THEN brandColor
                  ELSE template.background.colors[1]

C26_SplitSideBySide ==
    (rnd.state = "returned" /\ rnd.result.ok /\ rnd.options.slide.templateId = "split") =>
        LET text == rnd.result.value.buffer.text.headline
            shot == rnd.result.value.buffer.screenshot
        IN  \/ text.left + text.width <= shot.left
            \/ shot.left + shot.width <= text.left

\* C20: the template render() obtains from getTemplateById is the catalog's
\* template with the slide's templateId; for a templateId the catalog does not
\* hold getTemplateById throws, and render() fails with that error whatever
\* the screenshot and the flattening would have done: no canvas is built and
\* no image comes back.
C20_TemplateNotFound ==
    rnd.state = "returned" =>
        LET id == rnd.options.slide.templateId
            present == \E i \in DOMAIN templateCatalog : templateCatalog[i].id = id
            found == getTemplateById(id)
        IN  /\ present =>
                  /\ found.ok
                  /\ found.value.id = id
                  /\ \E i \in DOMAIN templateCatalog : templateCatalog[i] = found.value
                  /\ rnd.result.ok => rnd.result.value.metadata.templateId = id
            /\ ~present =>
                  /\ found = Err("TemplateNotFound", id)
                  /\ rnd.result = found
                  /\ ~rnd.result.ok

C20_Witness ==
    /\ rnd.state = "returned"
    /\ rnd.options.slide.templateId = "bento"
    /\ rnd.options.screenshotBuffer.valid
    /\ rnd.flat.ok
    /\ rnd.result = Err("TemplateNotFound", "bento")

----------------------------------------------------------------------------
(* Calls of createTextSvg() *)

\* The five characters escapeXml replaces, and letters that spell an entity.
SvgAlphabet == {"&", "<", ">", "\"", "'", "l", "t", ";"}

SvgTexts == UNION { [1..n -> SvgAlphabet] : n \in 0..MaxSvgText }

\* createTextSvg as addTextOverlays calls it for an iPhone headline (overlay
\* primary colour) and subheadline (overlay secondary, which the theme does not
\* define), under each alignment.
SvgCalls ==
    { [state |-> "called", text |-> text, fontSize |-> style.fontSize,
       fontWeight |-> style.fontWeight, align |-> align, maxWidth |-> 944,
       color |-> style.color, result |-> NoSvg] :
      text \in SvgTexts,
      style \in { [fontSize |-> 54, fontWeight |-> 700, color |-> COLORS_white],
                  [fontSize |-> 29, fontWeight |-> 500,
                   color |-> <<"u", "n", "d", "e", "f", "i", "n", "e", "d">>] },
      align \in {"left", "center", "right"} }

InitSvg ==
    /\ templateCatalog = TEMPLATES
    /\ defaultByType = DEFAULT_TEMPLATE_BY_TYPE
    /\ deviceTargets = DEVICE_TARGETS
    /\ themeTokens = THEME
    /\ svg \in SvgCalls
    /\ console = <<>>
    /\ cpy = NoCopy
    /\ req = NoRequest
    /\ health = NoHealth
    /\ tplCall = NoTplCall
    /\ gen = GenIdle
    /\ sb = NoStoryboard
    /\ call = NoCall
    /\ nUpdates = 0
    /\ rnd = NoRender
    /\ exp = NoExport

CreateTextSvg ==
    /\ svg.state = "called"
    /\ svg' = [svg EXCEPT !.state = "returned",
                          !.result = createTextSvg(svg.text, svg.fontSize, svg.fontWeight,
                                                   svg.align, svg.maxWidth, svg.color)]
    /\ UNCHANGED <<catalogs, cpy, req, health, console, tplCall, gen, sb, call, nUpdates,
                   rnd, exp>>

NextSvg == CreateTextSvg

\* A createTextSvg() call on each text.
SpecSvg == InitSvg /\ [][NextSvg]_vars

\* The predefined XML entities and the characters they stand for.
XmlEntities ==
    { [name |-> <<"&", "a", "m", "p", ";">>, char |-> "&"],
      [name |-> <<"&", "l", "t", ";">>, char |-> "<"],
      [name |-> <<"&", "g", "t", ";">>, char |-> ">"],
      [name |-> <<"&", "q", "u", "o", "t", ";">>, char |-> "\""],
      [name |-> <<"&", "a", "p", "o", "s", ";">>, char |-> "'"] }

EntityAt(markup, i) ==
    { e \in XmlEntities :
        /\ i + Len(e.name) - 1 <= Len(markup)
        /\ SubSeq(markup, i, i + Len(e.name) - 1) = e.name }

RECURSIVE XmlText(_)
\* What an XML parser reads from character data: entities replaced, left to right.
XmlText(markup) ==
    IF markup = <<>> THEN <<>>
    ELSE IF EntityAt(markup, 1) # {}
        THEN LET e == CHOOSE e \in EntityAt(markup, 1) : TRUE
             IN  <<e.char>> \o XmlText(SubSeq(markup, Len(e.name) + 1, Len(markup)))
    ELSE <<Head(markup)>> \o XmlText(Tail(markup))

\* C24: the text createTextSvg puts into the markup holds no raw <, >, double
\* or single quote, each & in it starts one of &amp; &lt; &gt; &quot; &apos;,
\* and reading the entities back gives the text that was passed in.
C24_EscapedText ==
    svg.state = "returned" =>
        LET content == svg.result.content
        IN  /\ \A i \in DOMAIN content :
                  /\ content[i] \notin {"<", ">", "\"", "'"}
                  /\ content[i] = "&" => EntityAt(content, i) # {}
            /\ XmlText(content) = svg.text

C24_Witness ==
    /\ svg.state = "returned"
    /\ svg.text = <<"<", "&", "l", "'">>
    /\ svg.result.content =
          <<"&", "l", "t", ";", "&", "a", "m", "p", ";", "l", "&", "a", "p", "o", "s", ";">>

----------------------------------------------------------------------------
(* application/services/LLMCopyGeneratorAdapter.ts *)

\* isAvailable: an API key is configured ("" when it is not).
isAvailable(config) == config.apiKey # ""

enforceLimit(text, maxLength) ==
    IF Len(text) <= maxLength THEN text
    ELSE LET truncated == substring0(text, maxLength)
             lastSpace == lastIndexOfSpace(truncated)
         IN  IF 10 * lastSpace > 7 * maxLength
                 THEN Trim(substring0(truncated, lastSpace))
             ELSE Trim(substring0(truncated, IF maxLength - 3 > 0 THEN maxLength - 3 ELSE 0))
                  \o <<".", ".", ".">>

\* generateWithOpenAI, given what the API call and the parsing of its answer
\* yield: upstream.ok is false when the request, the JSON or its fields fail.
generateWithOpenAI(config, input, upstream) ==
    IF ~upstream.ok THEN Err("OpenAI", "")
    ELSE Ok([headline |-> enforceLimit(upstream.headline, 32),
             subheadline |-> enforceLimit(upstream.subheadline, 60),
             locale |-> input.locale,
             metadata |->
                [model |-> IF config.model # "" THEN config.model ELSE "gpt-4o-mini",
                 truncated |-> \/ enforceLimit(upstream.headline, 32) # upstream.headline
                               \/ enforceLimit(upstream.subheadline, 60)
                                     # upstream.subheadline,
                 fallbackUsed |-> FALSE]])

\* The line LLMCopyGeneratorAdapter.generateCopy writes to the console, or None.
LLMCopyWarning(config, input, upstream) ==
    IF isAvailable(config) /\ config.provider = "openai"
       /\ ~generateWithOpenAI(config, input, upstream).ok
        THEN "OpenAI copy generation failed, using fallback."
    ELSE None

LLMCopyGeneratorAdapter_generateCopy(config, input, upstream) ==
    LET fallbackCopy == RuleBasedCopyGenerator_generateCopy(input)
    IN  IF ~isAvailable(config)
            THEN [fallbackCopy EXCEPT !.metadata.fallbackUsed = TRUE]
        ELSE IF config.provider = "openai"
                /\ generateWithOpenAI(config, input, upstream).ok
            THEN generateWithOpenAI(config, input, upstream).value
        ELSE [fallbackCopy EXCEPT !.metadata.model = config.provider \o "-fallback",
                                  !.metadata.fallbackUsed = TRUE]

----------------------------------------------------------------------------
(* Calls of the copy generators *)

\* A text of n units, all "a" but for spaces at the given zero-based places
\* and, when capital is set, a leading "Z".
TextOf(n, spaces, capital) ==
    [i \in 1..n |-> IF (i - 1) \in spaces THEN " "
                    ELSE IF capital /\ i = 1 THEN "Z" ELSE "a"]

\* Lengths below, at and above both limits; space patterns on either side of
\* the 70% marks (22.4 and 42) and just before the cuts.
CopyTextLengths == {3, 24, 32, 33, 45, 61, 70}
SpacePatterns == { {}, {22}, {23}, {29, 30, 31}, {42}, {43}, {57, 58, 59} }

CopyTexts ==
    UNION { { TextOf(n, sp, cap) :
                sp \in { s \in SpacePatterns : \A i \in s : i < n }, cap \in BOOLEAN } :
            n \in CopyTextLengths }

LLMConfigs ==
    { [provider |-> "openai", apiKey |-> "", model |-> ""],
      [provider |-> "openai", apiKey |-> "sk-test", model |-> ""],
      [provider |-> "anthropic", apiKey |-> "sk-test", model |-> "claude"] }

NoConfig == [provider |-> None, apiKey |-> "", model |-> ""]
NoUpstream == [ok |-> FALSE, headline |-> <<>>, subheadline |-> <<>>]

CopyInput(slideType, appName, valueBullet) ==
    [slideType |-> slideType, appName |-> appName, valueBullet |-> valueBullet,
     locale |-> DEFAULT_LOCALE]

\* The generateCopy calls: the rule-based generator on every text as app name
\* or value bullet, and the adapter on every configuration and upstream answer.
CopyCalls ==
    { [state |-> "called", generator |-> "RuleBasedCopyGenerator", config |-> NoConfig,
       input |-> CopyInput(slideType, appName, valueBullet), upstream |-> NoUpstream,
       result |-> NoCopy] :
      slideType \in SlideTypes,
      appName \in { t \in CopyTexts : ~(" " \in Range(t)) },
      valueBullet \in {<<>>} \cup { t \in CopyTexts : Len(t) > 3 } }
    \cup
    { [state |-> "called", generator |-> "LLMCopyGeneratorAdapter", config |-> config,
       input |-> CopyInput(slideType, TextOf(45, {}, TRUE), TextOf(61, {43}, TRUE)),
       upstream |-> upstream, result |-> NoCopy] :
      config \in LLMConfigs, slideType \in SlideTypes,
      upstream \in {NoUpstream}
          \cup { [ok |-> TRUE, headline |-> h, subheadline |-> s] :
                   h \in { t \in CopyTexts : Len(t) <= 45 },
                   s \in { t \in CopyTexts : Len(t) >= 45 } } }

InitCopy ==
    /\ templateCatalog = TEMPLATES
    /\ defaultByType = DEFAULT_TEMPLATE_BY_TYPE
    /\ deviceTargets = DEVICE_TARGETS
    /\ themeTokens = THEME
    /\ svg = NoSvg
    /\ console = <<>>
    /\ tplCall = NoTplCall
    /\ gen = GenIdle
    /\ sb = NoStoryboard
    /\ call = NoCall
    /\ nUpdates = 0
    /\ rnd = NoRender
    /\ exp = NoExport
    /\ cpy \in CopyCalls
    /\ req = NoRequest
    /\ health = NoHealth

GenerateCopy ==
    /\ cpy.state = "called"
    /\ cpy' = [cpy EXCEPT
                 !.state = "returned",
                 !.result =
                     IF cpy.generator = "RuleBasedCopyGenerator"
                         THEN RuleBasedCopyGenerator_generateCopy(cpy.input)
                     ELSE LLMCopyGeneratorAdapter_generateCopy(cpy.config, cpy.input,
                                                                cpy.upstream)]
    /\ console' = IF cpy.generator = "RuleBasedCopyGenerator" THEN console
                  ELSE Warn(console, LLMCopyWarning(cpy.config, cpy.input, cpy.upstream))
    /\ UNCHANGED <<catalogs, svg, req, health, tplCall, gen, sb, call, nUpdates, rnd, exp>>

NextCopy == GenerateCopy

\* A generateCopy call of either generator on each combination of its inputs.
SpecCopy == InitCopy /\ [][NextCopy]_vars

\* C12: every copy returned by RuleBasedCopyGenerator.generateCopy and by
\* LLMCopyGeneratorAdapter.generateCopy has a headline of at most 32 units and
\* a subheadline of at most 60, whatever the app name, the value bullet and
\* the upstream texts, longer than the limits or not, with or without spaces.
C12_CopyWithinLimits ==
    cpy.state = "returned" =>
        /\ Len(cpy.result.headline) <= 32
        /\ Len(cpy.result.subheadline) <= 60

C12_Witness ==
    /\ cpy.state = "returned"
    /\ cpy.generator = "RuleBasedCopyGenerator"
    /\ cpy.input.slideType = "hero"
    /\ Len(cpy.input.appName) = 45
    /\ Len(cpy.result.headline) = 32
    /\ cpy.result.headline[32] = ELLIPSIS
    /\ cpy.result.metadata.truncated

----------------------------------------------------------------------------
(* infrastructure/export/ZipExportService.ts *)

\* JSZip.file(name, data): adds the entry, or replaces the data of the entry
\* that already has this name.
ZipFile(zip, name, data) ==
    IF \E i \in DOMAIN zip : zip[i].name = name
        THEN [i \in DOMAIN zip |->
                 IF zip[i].name = name THEN [name |-> name, data |-> data] ELSE zip[i]]
    ELSE Append(zip, [name |-> name, data |-> data])

RECURSIVE Distinct(_)
\* Array.from(new Set(seq)): the distinct elements in order of first appearance.
Distinct(seq) ==
    IF seq = <<>> THEN <<>>
    ELSE LET front == Distinct(SubSeq(seq, 1, Len(seq) - 1))
             last == seq[Len(seq)]
         IN  IF last \in Range(front) THEN front ELSE Append(front, last)

\* renderedImages.filter((img) => img.target.id === target.id).length
\* Faulty variant: images are matched by platform instead of target id.
ImagesForTarget_byPlatform(renderedImages, target) ==
    Cardinality({ i \in DOMAIN renderedImages :
                    renderedImages[i].target.platform = target.platform })

ImagesForTarget(renderedImages, target) ==
    Cardinality({ i \in DOMAIN renderedImages : renderedImages[i].target.id = target.id })

\* Faulty variant: templatesUsed keeps one entry per slide, repetitions included.
generateManifest_templatePerSlide(storyboard, targets, renderedImages, now) ==
    [appName |-> storyboard.appName,
     exportedAt |-> now,
     locale |-> storyboard.locale,
     targets |-> [i \in DOMAIN targets |->
                    [platform |-> targets[i].platform,
                     width |-> targets[i].width,
                     height |-> targets[i].height,
                     fileCount |-> ImagesForTarget(renderedImages, targets[i])]],
     templatesUsed |-> [i \in DOMAIN storyboard.slides |-> storyboard.slides[i].templateId],
     slides |-> [i \in DOMAIN storyboard.slides |->
                    [slideId |-> storyboard.slides[i].id,
                     headline |-> storyboard.slides[i].text.headline,
                     subheadline |-> storyboard.slides[i].text.subheadline,
                     screenshotId |-> storyboard.slides[i].screenshot.screenshotId,
                     templateId |-> storyboard.slides[i].templateId]],
     generatorVersion |-> GENERATOR_VERSION]

generateManifest(storyboard, targets, renderedImages, now) ==
    [appName |-> storyboard.appName,
     exportedAt |-> now,
     locale |-> storyboard.locale,
     targets |-> [i \in DOMAIN targets |->
                    [platform |-> targets[i].platform,
                     width |-> targets[i].width,
                     height |-> targets[i].height,
                     fileCount |-> ImagesForTarget(renderedImages, targets[i])]],
     templatesUsed |->
        Distinct([i \in DOMAIN storyboard.slides |-> storyboard.slides[i].templateId]),
     slides |-> [i \in DOMAIN storyboard.slides |->
                    [slideId |-> storyboard.slides[i].id,
                     headline |-> storyboard.slides[i].text.headline,
                     subheadline |-> storyboard.slides[i].text.subheadline,
                     screenshotId |-> storyboard.slides[i].screenshot.screenshotId,
                     templateId |-> storyboard.slides[i].templateId]],
     generatorVersion |-> GENERATOR_VERSION]

RECURSIVE AddImages(_, _)
\* The loop of exportAsZip over renderedImages, starting from the archive zip:
\* the archive with every image added, or the error generateFilename throws.
AddImages(zip, images) ==
    IF images = <<>> THEN Ok(zip)
    ELSE LET filename == generateFilename(Head(images).target.platform,
                                          Head(images).slideId)
         IN  IF ~filename.ok THEN filename
             ELSE AddImages(ZipFile(zip, filename.value, Head(images).buffer),
                            Tail(images))

\* exportAsZip(options) at time now. sizeBytes, the length of the compressed
\* archive, is not modelled.
exportAsZip(options, now) ==
    LET images == AddImages(<<>>, options.renderedImages)
        manifest == generateManifest(options.storyboard, options.targets,
                                     options.renderedImages, now)
    IN  IF ~images.ok THEN images
        ELSE Ok([zip |-> ZipFile(images.value, MANIFEST_FILENAME, manifest),
                 fileCount |-> Len(options.renderedImages) + 1,
                 manifest |-> manifest])

----------------------------------------------------------------------------
(* Inputs of exportAsZip() *)

\* The storyboard generate() returns for this input at time now.
GeneratedStoryboard(input, now) ==
    [appName |-> input.appName,
     locale |-> input.locale,
     slides |-> [k \in SlideNumbers |->
                    BuildSlide(input, k,
                               generateCopy(input.generator, CopyRequest(input, k))).value],
     createdAt |-> now,
     version |-> GENERATOR_VERSION]

SampleInput ==
    [appName |-> <<"M", "y", "A", "p", "p">>,
     valueBullets |-> SubSeq(BulletPool, 1, VALUE_BULLETS_MIN),
     screenshots |-> Screenshots(SCREENSHOTS_MIN),
     locale |-> DEFAULT_LOCALE, generator |-> "rule"]

SampleStoryboard == GeneratedStoryboard(SampleInput, "2025-01-13T21:30:00.000Z")

\* The storyboard with its slides' template ids replaced, as a client of the
\* export route may send it.
WithTemplates(storyboard, templateIds) ==
    [storyboard EXCEPT !.slides =
        [k \in DOMAIN storyboard.slides |->
            [storyboard.slides[k] EXCEPT !.templateId = templateIds[k]]]]

\* A generated storyboard, one edited by the update operations, and two whose
\* slides were given other templates.
ExportStoryboards ==
    { SampleStoryboard,
      updateScreenshotAssignment(
          updateSlideText(SampleStoryboard, 2,
                          [headline |-> "Ship faster", subheadline |-> None]).value,
          4, "ss9", "retake.png").value,
      WithTemplates(SampleStoryboard, <<"split", "split", "hero", "split", "hero">>),
      WithTemplates(SampleStoryboard, <<"stack", "stack", "stack", "stack", "stack">>) }

\* The catalog's targets and a further iPhone target a caller may pass.
ExportTargetPool ==
    DEVICE_TARGETS \o
    << [id |-> "iphone-6.5", platform |-> "iPhone", width |-> 1242, height |-> 2688,
        orientation |-> "portrait",
        safeMargin |-> [top |-> 120, right |-> 60, bottom |-> 120, left |-> 60]] >>

\* The sequences of pool targets with distinct ids.
TargetLists ==
    { ts \in UNION { [1..n -> Range(ExportTargetPool)] : n \in 0..Len(ExportTargetPool) } :
        \A i, j \in DOMAIN ts : i # j => ts[i].id # ts[j].id }

RenderedImageOf(target, slideId) ==
    [target |-> target, slideId |-> slideId, buffer |-> <<"png", target.id, slideId>>]

\* One image per (target, slide), target by target as the export route
\* produces them, or slide by slide.
GridByTarget(ts) ==
    [n \in 1..(Len(ts) * SLIDES_PER_STORYBOARD) |->
        RenderedImageOf(ts[((n - 1) \div SLIDES_PER_STORYBOARD) + 1],
                        ((n - 1) % SLIDES_PER_STORYBOARD) + 1)]

GridBySlide(ts) ==
    [n \in 1..(Len(ts) * SLIDES_PER_STORYBOARD) |->
        RenderedImageOf(ts[((n - 1) % Len(ts)) + 1], ((n - 1) \div Len(ts)) + 1)]

\* Short lists of any images, slide ids outside 1..5 included.
FreeImageLists ==
    UNION { [1..n -> { RenderedImageOf(t, k) :
                         t \in Range(ExportTargetPool),
                         k \in 0..(SLIDES_PER_STORYBOARD + 1) }] : n \in 0..MaxImages }

ExportOptions ==
    UNION { { [storyboard |-> s, targets |-> ts, renderedImages |-> imgs] :
                s \in ExportStoryboards,
                imgs \in {GridByTarget(ts), GridBySlide(ts)} } : ts \in TargetLists }
    \cup
    { [storyboard |-> s, targets |-> DEVICE_TARGETS, renderedImages |-> imgs] :
        s \in ExportStoryboards, imgs \in FreeImageLists }

InitExport ==
    /\ templateCatalog = TEMPLATES
    /\ defaultByType = DEFAULT_TEMPLATE_BY_TYPE
    /\ deviceTargets = DEVICE_TARGETS
    /\ themeTokens = THEME
    /\ svg = NoSvg
    /\ console = <<>>
    /\ cpy = NoCopy
    /\ req = NoRequest
    /\ health = NoHealth
    /\ tplCall = NoTplCall
    /\ gen = GenIdle
    /\ sb = NoStoryboard
    /\ call = NoCall
    /\ nUpdates = 0
    /\ rnd = NoRender
    /\ exp \in { [state |-> "called", options |-> o, result |-> Err(None, None)] :
                  o \in ExportOptions }

ExportAsZip ==
    /\ exp.state = "called"
    /\ \E now \in Timestamps :
          exp' = [exp EXCEPT !.state = "returned",
                             !.result = exportAsZip(exp.options, now)]
    /\ UNCHANGED <<catalogs, svg, cpy, req, health, console, tplCall, gen, sb, call, nUpdates, rnd>>

NextExport == ExportAsZip

\* An exportAsZip() call on each of its inputs.
SpecExport == InitExport /\ [][NextExport]_vars

\* The (target id, slide id) pairs of the images, and whether there is exactly
\* one image for each target of ts and each slide 1..5.
ImagePairs(images) == { <<images[i].target.id, images[i].slideId>> : i \in DOMAIN images }

OnePerTargetAndSlide(images, ts) ==
    /\ Len(images) = Len(ts) * 5
    /\ ImagePairs(images) = { <<ts[i].id, k>> : i \in DOMAIN ts, k \in 1..5 }

ZipNames(zip) == { zip[i].name : i \in DOMAIN zip }

\* C3: given the two fixed device targets and one rendered image for each
\* (target, slide id 1..5), exportAsZip produces an archive with exactly the 11
\* entries iphone_01.png..iphone_05.png, ipad_01.png..ipad_05.png and
\* manifest.json, and reports fileCount = 11.
C3_ElevenEntries ==
    (/\ exp.state = "returned"
     /\ exp.options.targets = DEVICE_TARGETS
     /\ OnePerTargetAndSlide(exp.options.renderedImages, DEVICE_TARGETS)) =>
        /\ exp.result.ok
        /\ Len(exp.result.value.zip) = 11
        /\ ZipNames(exp.result.value.zip) =
              { "iphone_01.png", "iphone_02.png", "iphone_03.png", "iphone_04.png",
                "iphone_05.png", "ipad_01.png", "ipad_02.png", "ipad_03.png",
                "ipad_04.png", "ipad_05.png", "manifest.json" }
        /\ exp.result.value.fileCount = 11

C3_Witness ==
    /\ exp.state = "returned"
    /\ exp.options.targets = DEVICE_TARGETS
    /\ exp.options.renderedImages = GridBySlide(DEVICE_TARGETS)
    /\ exp.result.ok

\* C4: for a 5-slide storyboard, N device targets with distinct ids and one
\* rendered image per (target, slide), the manifest has N target entries, each
\* with fileCount = 5, and 5 slide entries in slide-id order, each carrying
\* that slide's id, headline, subheadline, screenshot id and template id.
C4_ManifestRoundTrip ==
    (/\ exp.state = "returned"
     /\ Len(exp.options.storyboard.slides) = 5
     /\ \A i, j \in DOMAIN exp.options.targets :
           i # j => exp.options.targets[i].id # exp.options.targets[j].id
     /\ OnePerTargetAndSlide(exp.options.renderedImages, exp.options.targets)) =>
        LET m == exp.result.value.manifest
            board == exp.options.storyboard
        IN  /\ exp.result.ok
            /\ Len(m.targets) = Len(exp.options.targets)
            /\ \A i \in DOMAIN m.targets :
                  /\ m.targets[i].fileCount = 5
                  /\ m.targets[i].platform = exp.options.targets[i].platform
                  /\ m.targets[i].width = exp.options.targets[i].width
                  /\ m.targets[i].height = exp.options.targets[i].height
            /\ Len(m.slides) = 5
            /\ \A k \in 1..5 :
                  /\ m.slides[k].slideId = k
                  /\ m.slides[k].headline = board.slides[k].text.headline
                  /\ m.slides[k].subheadline = board.slides[k].text.subheadline
                  /\ m.slides[k].screenshotId = board.slides[k].screenshot.screenshotId
                  /\ m.slides[k].templateId = board.slides[k].templateId
            /\ exp.result.value.zip[Len(exp.result.value.zip)].data = m

C4_Witness ==
    /\ exp.state = "returned"
    /\ Len(exp.options.targets) = 3
    /\ exp.options.renderedImages = GridByTarget(exp.options.targets)
    /\ exp.options.storyboard # SampleStoryboard
    /\ exp.result.ok
    /\ exp.result.value.manifest.slides[4].screenshotId = "ss9"

\* C21: the manifest's templatesUsed holds each template id of the storyboard's
\* slides exactly once, ordered by the first slide that uses it; for a
\* storyboard as generate() returns it, it is hero, stack, split, closing.
C21_TemplatesUsed ==
    (exp.state = "returned" /\ exp.result.ok) =>
        LET used == exp.result.value.manifest.templatesUsed
            slides == exp.options.storyboard.slides
            first(id) == CHOOSE k \in DOMAIN slides :
                            /\ slides[k].templateId = id
                            /\ \A j \in 1..(k - 1) : slides[j].templateId # id
        IN  /\ { used[i] : i \in DOMAIN used } = { slides[k].templateId : k \in DOMAIN slides }
            /\ \A i, j \in DOMAIN used : i < j => first(used[i]) < first(used[j])
            /\ exp.options.storyboard = SampleStoryboard =>
                  used = <<"hero", "stack", "split", "closing">>

C21_Witness ==
    /\ exp.state = "returned"
    /\ exp.result.ok
    /\ exp.options.storyboard =
          WithTemplates(SampleStoryboard, <<"split", "split", "hero", "split", "hero">>)
    /\ exp.result.value.manifest.templatesUsed = <<"split", "hero">>

\* C30: generateFilename gives iphone_NN.png or ipad_NN.png, NN the slide
\* number in two digits, for slide numbers 1 to 5 and throws for every other
\* number; an exportAsZip call given an image whose slideId is outside 1..5
\* fails with that error and returns no archive, manifest or file count.
C30_FilenamesAndRejection ==
    exp.state = "returned" =>
        LET images == exp.options.renderedImages
            names == [iPhone |-> <<"iphone_01.png", "iphone_02.png", "iphone_03.png",
                                   "iphone_04.png", "iphone_05.png">>,
                      iPad |-> <<"ipad_01.png", "ipad_02.png", "ipad_03.png",
                                 "ipad_04.png", "ipad_05.png">>]
            outside == { i \in DOMAIN images : images[i].slideId \notin 1..5 }
        IN  /\ \A i \in DOMAIN images :
                  LET filename == generateFilename(images[i].target.platform,
                                                   images[i].slideId)
                  IN  IF i \in outside
                          THEN filename = Err("InvalidSlideNumber", images[i].slideId)
                      ELSE filename = Ok(names[images[i].target.platform][images[i].slideId])
            /\ outside # {} =>
                  /\ ~exp.result.ok
                  /\ exp.result.error = "InvalidSlideNumber"
                  /\ DOMAIN exp.result = {"ok", "error", "detail"}
            /\ outside = {} => exp.result.ok

C30_Witness ==
    /\ exp.state = "returned"
    /\ Len(exp.options.renderedImages) = 2
    /\ exp.options.renderedImages[1].slideId = 5
    /\ exp.options.renderedImages[2].slideId = 6
    /\ exp.result = Err("InvalidSlideNumber", 6)

\* C27 (as claimed): the fileCount exportAsZip reports is the number of
\* entries of the archive it produced, images and manifest.json together.
C27_FileCountMatchesArchive ==
    (exp.state = "returned" /\ exp.result.ok) =>
        exp.result.value.fileCount = Len(exp.result.value.zip)

----------------------------------------------------------------------------
(* app/api/health/route.ts *)

\* The response of GET /api/health at time now; apiKey tells whether
\* process.env.OPENAI_API_KEY is set.
healthGET(now, apiKey) ==
    IF ~validateTemplateConfiguration.ok
        THEN [status |-> 500,
              body |-> [status |-> "unhealthy",
                        error |-> validateTemplateConfiguration.detail,
                        timestamp |-> now]]
    ELSE [status |-> 200,
          body |-> [status |-> "healthy", timestamp |-> now,
                    services |-> [renderer |-> "ready",
                                  copyGenerator |-> IF apiKey THEN "ready"
                                                    ELSE "not configured",
                                  templates |-> "validated"],
                    config |-> [deviceTargets |-> Len(deviceTargets),
                                generatorType |-> "openai-image"]]]

----------------------------------------------------------------------------
(* app/api/export/route.ts *)

\* Map.prototype.set on a map kept as its entries in insertion order.
MapSet(map, key, value) ==
    IF \E i \in DOMAIN map : map[i].key = key
        THEN [i \in DOMAIN map |->
                 IF map[i].key = key THEN [key |-> key, value |-> value] ELSE map[i]]
    ELSE Append(map, [key |-> key, value |-> value])

MapHas(map, key) == \E i \in DOMAIN map : map[i].key = key
MapGet(map, key) == (CHOOSE e \in Range(map) : e.key = key).value

RECURSIVE screenshotBuffersOf(_)
\* The map POST builds from the uploaded files: file.name without its
\* extension -> the file's bytes.
screenshotBuffersOf(files) ==
    IF files = <<>> THEN <<>>
    ELSE MapSet(screenshotBuffersOf(SubSeq(files, 1, Len(files) - 1)),
                files[Len(files)].stem, files[Len(files)].buffer)

\* The buffer POST picks for a slide: by screenshot id, then by original
\* filename, then the first uploaded one; found is false when there is none.
screenshotBufferFor(buffers, slide) ==
    IF MapHas(buffers, slide.screenshot.screenshotId)
        THEN [found |-> TRUE, buffer |-> MapGet(buffers, slide.screenshot.screenshotId)]
    ELSE IF MapHas(buffers, slide.screenshot.originalFilename)
        THEN [found |-> TRUE, buffer |-> MapGet(buffers, slide.screenshot.originalFilename)]
    ELSE IF buffers # <<>>
        THEN [found |-> TRUE, buffer |-> buffers[1].value]
    ELSE [found |-> FALSE, buffer |-> [valid |-> FALSE, width |-> 0, height |-> 0]]

LettersLower ==
    <<"a", "b", "c", "d", "e", "f", "g", "h", "i", "j", "k", "l", "m",
      "n", "o", "p", "q", "r", "s", "t", "u", "v", "w", "x", "y", "z">>
LettersUpper ==
    <<"A", "B", "C", "D", "E", "F", "G", "H", "I", "J", "K", "L", "M",
      "N", "O", "P", "Q", "R", "S", "T", "U", "V", "W", "X", "Y", "Z">>

\* appName.replace(/[^a-z0-9]/gi, '_').toLowerCase() + '_screenshots.zip'
zipFilename(appName) ==
    [i \in DOMAIN appName |->
        IF \E j \in 1..26 : LettersUpper[j] = appName[i]
            THEN LettersLower[CHOOSE j \in 1..26 : LettersUpper[j] = appName[i]]
        ELSE IF appName[i] \in Range(LettersLower) \cup Range(Digits) THEN appName[i]
        ELSE "_"]
    \o <<"_", "s", "c", "r", "e", "e", "n", "s", "h", "o", "t", "s", ".", "z", "i", "p">>

\* The response of POST: status, the error of a JSON body or None, and the
\* archive and its download name when the body is the ZIP.
Response(status, error, zip, filename) ==
    [status |-> status, error |-> error, zip |-> zip, filename |-> filename]

JsonError(status, error) == Response(status, error, <<>>, <<>>)

\* The (target, slide) the loops of POST reach after n renders, target by
\* target and slide by slide.
LoopTarget(request, n) == deviceTargets[(n \div Len(request.storyboard.slides)) + 1]
LoopSlide(request, n) == request.storyboard.slides[(n % Len(request.storyboard.slides)) + 1]
\* Faulty variant: the loop over the targets ends after the first target.
LoopLength_firstTargetOnly(request) == Len(request.storyboard.slides)

LoopLength(request) == Len(deviceTargets) * Len(request.storyboard.slides)

\* POST from the point where n images have been pushed up to its next await:
\* the next renderer.render call, the exportAsZip call once both loops are
\* done, or the 400 response when no screenshot buffer can be found.
Continue(request, n) ==
    IF n = LoopLength(request)
        THEN [request EXCEPT
                 !.pc = "packaging",
                 !.exportOptions = [storyboard |-> request.storyboard,
                                    targets |-> deviceTargets,
                                    renderedImages |-> request.renderedImages]]
    ELSE LET slide == LoopSlide(request, n)
             shot == screenshotBufferFor(request.screenshotBuffers, slide)
         IN  IF ~shot.found
                 THEN [request EXCEPT
                          !.pc = "responded",
                          !.response = JsonError(400, "Screenshot not found: "
                                                      \o slide.screenshot.screenshotId)]
             ELSE [request EXCEPT
                      !.pc = "rendering",
                      !.renderCalls = Append(@, <<LoopTarget(request, n).id, slide.id>>),
                      !.renderOptions = [target |-> LoopTarget(request, n),
                                         slide |-> slide,
                                         screenshotBuffer |-> shot.buffer,
                                         brandColor |-> request.formData.brandColor]]

NoRenderOptions ==
    [target |-> DEVICE_TARGETS[1], slide |-> RenderSlide(1, "hero"),
     screenshotBuffer |-> [valid |-> FALSE, width |-> 0, height |-> 0],
     brandColor |-> <<>>]

NoExportOptions == [storyboard |-> NoStoryboard, targets |-> <<>>, renderedImages |-> <<>>]

\* POST from the arrival of the request to its first await on the renderer.
POST(formData) ==
    LET request == [pc |-> "received", formData |-> formData,
                    storyboard |-> formData.storyboard.value,
                    screenshotBuffers |-> screenshotBuffersOf(formData.screenshots),
                    renderCalls |-> <<>>, renderOptions |-> NoRenderOptions,
                    renderedImages |-> <<>>, exportOptions |-> NoExportOptions,
                    response |-> JsonError(0, None)]
        responded(status, error) ==
            [request EXCEPT !.pc = "responded", !.response = JsonError(status, error)]
    IN  IF formData.storyboard.kind = "missing"
            THEN responded(400, "Missing required field: storyboard")
        ELSE IF formData.storyboard.kind = "invalid"
            THEN responded(400, "Invalid storyboard JSON")
        ELSE IF Len(formData.screenshots) = 0
            THEN responded(400, "No screenshots uploaded")
        ELSE Continue(request, 0)

\* A renderer.render call of POST resolves (flat: what the image library
\* reports): its image is pushed and POST runs on to its next await, or the
\* error is caught and answered.
renderResolved(request, flat) ==
    LET rendered == render(request.renderOptions, flat)
    IN  IF ~rendered.ok
            THEN [request EXCEPT !.pc = "responded",
                                 !.response = Response(500, rendered.error, <<>>, <<>>)]
        ELSE Continue([request EXCEPT
                          !.renderedImages =
                              Append(@, [target |-> request.renderOptions.target,
                                         slideId |-> request.renderOptions.slide.id,
                                         buffer |-> rendered.value.buffer])],
                      Len(request.renderedImages) + 1)

\* The exportAsZip call of POST resolves at time now: the ZIP is answered, or
\* the error is caught and answered.
exportResolved(request, now) ==
    LET exportResult == exportAsZip(request.exportOptions, now)
    IN  IF ~exportResult.ok
            THEN [request EXCEPT !.pc = "responded",
                                 !.response = Response(500, exportResult.error, <<>>, <<>>)]
        ELSE [request EXCEPT
                 !.pc = "responded",
                 !.response = Response(200, None, exportResult.value.zip,
                                       zipFilename(request.storyboard.appName))]

\* console.error in the catch block of POST.
ExportErrorLog(log, request) ==
    IF request.pc = "responded" /\ request.response.status = 500
        THEN Append(log, "Export API error: " \o request.response.error)
    ELSE log

----------------------------------------------------------------------------
(* The service: template configurations, health checks and one export request *)

BENTO_TEMPLATE == [STACK_TEMPLATE EXCEPT !.id = "bento"]

\* The catalog as shipped, and catalogs as an edit of templates.ts may leave
\* them: a template removed, a default naming no template, no template left
\* for a slide type, nothing at all, a template added and made a default, a
\* default that is not applicable to its slide type.
Configurations ==
    { [templates |-> TEMPLATES, defaults |-> DEFAULT_TEMPLATE_BY_TYPE],
      [templates |-> SubSeq(TEMPLATES, 1, 3), defaults |-> DEFAULT_TEMPLATE_BY_TYPE],
      [templates |-> TEMPLATES,
       defaults |-> [DEFAULT_TEMPLATE_BY_TYPE EXCEPT !.feature = "bento"]],
      [templates |-> << HERO_TEMPLATE,
                        [STACK_TEMPLATE EXCEPT !.applicableTypes = {"hero"}],
                        [SPLIT_TEMPLATE EXCEPT !.applicableTypes = {"closing"}],
                        CLOSING_TEMPLATE >>,
       defaults |-> DEFAULT_TEMPLATE_BY_TYPE],
      [templates |-> <<>>, defaults |-> DEFAULT_TEMPLATE_BY_TYPE],
      [templates |-> Append(TEMPLATES, BENTO_TEMPLATE),
       defaults |-> [DEFAULT_TEMPLATE_BY_TYPE EXCEPT !.feature = "bento"]],
      [templates |-> TEMPLATES,
       defaults |-> [DEFAULT_TEMPLATE_BY_TYPE EXCEPT !.hero = "stack"]] }

\* A storyboard as the client posts it, slide k using templateIds[k].
RequestStoryboard(templateIds) ==
    [appName |-> <<"M", "y", " ", "A", "p", "p", "2">>,
     locale |-> DEFAULT_LOCALE,
     slides |-> [k \in DOMAIN templateIds |-> RenderSlide(k, templateIds[k])],
     createdAt |-> "2025-01-13T21:30:00.000Z",
     version |-> GENERATOR_VERSION]

RequestStoryboards ==
    { [kind |-> "missing", value |-> NoStoryboard],
      [kind |-> "invalid", value |-> NoStoryboard],
      [kind |-> "json",
       value |-> RequestStoryboard(<<"hero", "stack", "split", "stack", "closing">>)],
      [kind |-> "json",
       value |-> RequestStoryboard(<<"hero", "stack", "bento", "stack", "hero">>)],
      [kind |-> "json", value |-> RequestStoryboard(<<>>)] }

UploadedFile(stem, valid) ==
    [stem |-> stem, extension |-> ".png",
     buffer |-> [valid |-> valid, width |-> 1290, height |-> 2796, of |-> stem]]

\* No file, the five screenshots of the storyboard, the same with an
\* undecodable second one, and a single file the storyboard does not name.
RequestFiles ==
    { <<>>,
      [i \in 1..5 |-> UploadedFile("ss" \o NumStr(i), TRUE)],
      [i \in 1..5 |-> UploadedFile("ss" \o NumStr(i), i # 2)],
      << UploadedFile("cover", TRUE) >> }

FormDatas ==
    { [storyboard |-> s, screenshots |-> f, brandColor |-> c] :
        s \in RequestStoryboards, f \in RequestFiles,
        c \in { <<>>, <<"#", "F", "F", "5", "7", "3", "3">> } }

\* What flattening reports to a request: the canvas size, or a failure.
RequestFlattenOutcomes(target) ==
    { [ok |-> TRUE, width |-> target.width, height |-> target.height],
      [ok |-> FALSE, width |-> 0, height |-> 0] }

InitService ==
    /\ \E c \in Configurations :
          /\ templateCatalog = c.templates
          /\ defaultByType = c.defaults
    /\ deviceTargets = DEVICE_TARGETS
    /\ themeTokens = THEME
    /\ svg = NoSvg
    /\ console = <<>>
    /\ cpy = NoCopy
    /\ req = NoRequest
    /\ health = NoHealth
    /\ tplCall = NoTplCall
    /\ gen = GenIdle
    /\ sb = NoStoryboard
    /\ call = NoCall
    /\ nUpdates = 0
    /\ rnd = NoRender
    /\ exp = NoExport

ValidateTemplateConfiguration ==
    /\ tplCall' = [op |-> "validateTemplateConfiguration", slideType |-> None,
                   templateId |-> None, result |-> validateTemplateConfiguration]
    /\ UNCHANGED <<catalogs, svg, cpy, req, health, console, gen, sb, call, nUpdates, rnd, exp>>

HealthGet ==
    /\ \E now \in Timestamps, apiKey \in BOOLEAN : health' = healthGET(now, apiKey)
    /\ UNCHANGED <<catalogs, svg, cpy, req, console, tplCall, gen, sb, call, nUpdates, rnd, exp>>

ExportPost ==
    /\ req.pc = "none"
    /\ \E formData \in FormDatas :
          /\ req' = POST(formData)
          /\ console' = ExportErrorLog(console, POST(formData))
    /\ UNCHANGED <<catalogs, svg, cpy, health, tplCall, gen, sb, call, nUpdates, rnd, exp>>

RenderResolves ==
    /\ req.pc = "rendering"
    /\ \E flat \in RequestFlattenOutcomes(req.renderOptions.target) :
          /\ req' = renderResolved(req, flat)
          /\ console' = ExportErrorLog(console, renderResolved(req, flat))
    /\ UNCHANGED <<catalogs, svg, cpy, health, tplCall, gen, sb, call, nUpdates, rnd, exp>>

ExportResolves ==
    /\ req.pc = "packaging"
    /\ \E now \in Timestamps :
          /\ req' = exportResolved(req, now)
          /\ console' = ExportErrorLog(console, exportResolved(req, now))
    /\ UNCHANGED <<catalogs, svg, cpy, health, tplCall, gen, sb, call, nUpdates, rnd, exp>>

NextService ==
    \/ ValidateTemplateConfiguration
    \/ HealthGet
    \/ ExportPost
    \/ RenderResolves
    \/ ExportResolves

\* The service under each template configuration: health checks, direct
\* validation calls and one export request from arrival to response.
SpecService == InitService /\ [][NextService]_vars

\* C15: validateTemplateConfiguration succeeds on the catalog as shipped, and
\* on any catalog it fails exactly when some slide type (hero, feature,
\* closing) has no applicable template or has a configured default template
\* id that no template of the catalog carries.
C15_ValidateTemplateConfiguration ==
    tplCall.op = "validateTemplateConfiguration" =>
        LET faulty(slideType) ==
                \/ \A t \in Range(templateCatalog) : slideType \notin t.applicableTypes
                \/ defaultByType[slideType] \notin CatalogIds
        IN  /\ ~tplCall.result.ok <=> \E slideType \in SlideTypes : faulty(slideType)
            /\ (templateCatalog = TEMPLATES /\ defaultByType = DEFAULT_TEMPLATE_BY_TYPE)
                  => tplCall.result.ok

C15_Witness ==
    /\ tplCall.op = "validateTemplateConfiguration"
    /\ ~tplCall.result.ok
    /\ templateCatalog = TEMPLATES
    /\ tplCall.result.detail = "Default template \"bento\" for slide type \"feature\" not found"

\* C16 (as claimed): while the template configuration is invalid, no export
\* request reaches rendering or packaging, and none is answered with a ZIP.
C16_InvalidConfigurationServesNoTraffic ==
    (~validateTemplateConfiguration.ok /\ req.pc # "none") =>
        /\ req.pc \notin {"rendering", "packaging"}
        /\ req.renderCalls = <<>>
        /\ req.exportOptions = NoExportOptions
        /\ req.response.status # 200

\* The render calls an export request makes when none fails, in order.
RenderGrid ==
    LET slides == req.storyboard.slides
    IN  [n \in 1..(Len(DEVICE_TARGETS) * Len(slides)) |->
            << DEVICE_TARGETS[((n - 1) \div Len(slides)) + 1].id,
               slides[((n - 1) % Len(slides)) + 1].id >>]

\* C19: an export request renders one image at a time, target by target and
\* slide by slide; exportAsZip is called only once every target x slide render
\* has completed; and when a render fails exportAsZip is never called and the
\* request ends with an error response and no ZIP.
C19_RendersBeforePackaging ==
    (req.pc # "none" /\ req.formData.storyboard.kind = "json") =>
        LET started == req.renderCalls
            completed == req.renderedImages
            packagingStarted == req.exportOptions # NoExportOptions
        IN  /\ Len(started) <= Len(RenderGrid)
            /\ \A n \in DOMAIN started : started[n] = RenderGrid[n]
            /\ \A n \in DOMAIN completed :
                  <<completed[n].target.id, completed[n].slideId>> = RenderGrid[n]
            /\ Len(started) - Len(completed) \in {0, 1}
            /\ req.pc = "rendering" => Len(started) = Len(completed) + 1
            /\ req.pc = "packaging" => packagingStarted
            /\ packagingStarted =>
                  /\ Len(completed) = Len(RenderGrid)
                  /\ Len(started) = Len(completed)
                  /\ req.exportOptions.renderedImages = completed
            /\ (req.pc = "responded" /\ Len(started) > Len(completed)) =>
                  /\ ~packagingStarted
                  /\ req.response.status = 500
                  /\ req.response.zip = <<>>
            /\ (req.pc = "responded" /\ req.response.status = 200) =>
                  /\ packagingStarted
                  /\ req.response.zip # <<>>

C19_Witness ==
    /\ req.pc = "responded"
    /\ req.response.status = 500
    /\ Len(req.renderCalls) = 7
    /\ Len(req.renderedImages) = 6
    /\ req.renderCalls[7] = <<"ipad-12.9", 2>>
    /\ req.response.error = "SharpError"
    /\ req.exportOptions = NoExportOptions

\* C29 (as claimed): every render call of an export request is given the
\* uploaded file whose name, without extension, is the slide's screenshotId; a
\* slide whose screenshotId names no uploaded file is never rendered.
C29_ScreenshotMatchesId ==
    req.pc = "rendering" =>
        /\ \E i \in DOMAIN req.formData.screenshots :
              req.formData.screenshots[i].stem =
                 req.renderOptions.slide.screenshot.screenshotId
        /\ req.renderOptions.screenshotBuffer.of =
              req.renderOptions.slide.screenshot.screenshotId

----------------------------------------------------------------------------
(* The core operations of concurrent requests, interleaved *)

\* A generate() call starts while other requests are in progress.
CoreGenerate == GenerateStart(SampleInput)

\* An update call on the storyboard the caller holds.
CoreUpdate ==
    /\ gen.pc = "done"
    /\ nUpdates < MaxUpdates
    /\ \E r \in { updateSlideText(sb, 2, [headline |-> "Ship faster", subheadline |-> None]),
                   updateSlideText(sb, 9, [headline |-> "Ship faster", subheadline |-> None]),
                   updateScreenshotAssignment(sb, 4, "ss9", "retake.png") } :
          /\ call' = [NoCall EXCEPT !.op = "update", !.before = sb, !.after = r.passed,
                                    !.ok = r.ok,
                                    !.error = IF r.ok THEN None ELSE r.error,
                                    !.returned = r.value]
          /\ sb' = IF r.ok THEN r.value ELSE r.passed
    /\ nUpdates' = nUpdates + 1
    /\ UNCHANGED <<catalogs, svg, cpy, req, health, console, tplCall, gen, rnd, exp>>

\* A template-registry call: selectTemplate or getTemplateById.
CoreTemplateCall ==
    \/ \E templateId \in {"split", "bento"} :
          /\ Len(Warn(console, selectTemplateWarning("feature", templateId))) <= MaxConsole
          /\ console' = Warn(console, selectTemplateWarning("feature", templateId))
          /\ tplCall' = [op |-> "selectTemplate", slideType |-> "feature",
                         templateId |-> templateId,
                         result |-> selectTemplate("feature", templateId)]
          /\ UNCHANGED <<catalogs, svg, cpy, req, health, gen, sb, call, nUpdates, rnd, exp>>
    \/ \E id \in {"closing", "bento"} :
          /\ tplCall' = [op |-> "getTemplateById", slideType |-> None,
                         templateId |-> id, result |-> getTemplateById(id)]
          /\ UNCHANGED <<catalogs, svg, cpy, req, health, console, gen, sb, call, nUpdates,
                         rnd, exp>>

\* A render() call is made: a hero slide, or a slide naming an absent template.
CoreRenderCall ==
    /\ rnd.state # "called"
    /\ \E slide \in {RenderSlide(1, "hero"), RenderSlide(2, "bento")} :
          rnd' = [state |-> "called",
                  options |-> [target |-> deviceTargets[1], slide |-> slide,
                               screenshotBuffer |-> [valid |-> TRUE, width |-> 1290,
                                                     height |-> 2796],
                               brandColor |-> <<"#", "F", "F", "5", "7", "3", "3">>],
                  flat |-> [ok |-> TRUE, width |-> deviceTargets[1].width,
                            height |-> deviceTargets[1].height],
                  result |-> Err(None, None)]
    /\ UNCHANGED <<catalogs, svg, cpy, req, health, console, tplCall, gen, sb, call, nUpdates, exp>>

\* An exportAsZip() call is made: the full grid of images, or one image whose
\* slide id has no filename.
CoreExportCall ==
    /\ exp.state # "called"
    /\ \E images \in {GridByTarget(deviceTargets), <<RenderedImageOf(deviceTargets[2], 0)>>} :
          exp' = [state |-> "called",
                  options |-> [storyboard |-> SampleStoryboard, targets |-> deviceTargets,
                               renderedImages |-> images],
                  result |-> Err(None, None)]
    /\ UNCHANGED <<catalogs, svg, cpy, req, health, console, tplCall, gen, sb, call, nUpdates, rnd>>

NextCore ==
    \/ CoreGenerate
    \/ CopyReturns
    \/ CopyFails
    \/ CoreUpdate
    \/ CoreTemplateCall
    \/ CoreRenderCall
    \/ Render
    \/ CoreExportCall
    \/ ExportAsZip

\* The seven core operations, called by requests that run concurrently: a
\* generate() in progress interleaves with the calls of the others.
SpecCore == Init /\ [][NextCore]_vars

\* C22: whatever the core operations selectTemplate, getTemplateById,
\* generate, updateSlideText, updateScreenshotAssignment, render and exportAsZip
\* do, in any interleaving, the template catalog, the default-template mapping,
\* the device targets and the theme tokens keep their initial values.
C22_CatalogsReadOnly ==
    /\ templateCatalog = TEMPLATES
    /\ defaultByType = DEFAULT_TEMPLATE_BY_TYPE
    /\ deviceTargets = DEVICE_TARGETS
    /\ themeTokens = THEME

C22_Witness ==
    /\ gen.pc = "done"
    /\ nUpdates = MaxUpdates
    /\ sb.slides[4].screenshot.screenshotId = "ss9"
    /\ tplCall.op = "selectTemplate"
    /\ rnd.state = "returned"
    /\ rnd.result.ok
    /\ exp.state = "returned"
    /\ exp.result.ok

====
